---- MODULE Spec2Model ----
(***************************************************************************)
(* Verification model of the adaptive-fallback retriever                   *)
(* (enhanced_retriever.py) and of the query analyzer (query_processor.py). *)
(*                                                                         *)
(* Conventions                                                             *)
(*  - scores, thresholds and similarity ratios are kept in hundredths      *)
(*    (0.5 is 50); a ratio a/b compared with 0.95 is compared as           *)
(*    100*a against 95*b.                                                  *)
(*  - a text is a sequence of words separated by single blanks; a word is  *)
(*    [ch, n]: the character ch repeated n times.  Lengths, prefixes and   *)
(*    suffixes are computed on the run-length form of the text.            *)
(***************************************************************************)
EXTENDS Integers, Sequences, FiniteSets, TLC

VARIABLES
    raw,        \* _deduplicate_results: the list handed to it
    once,       \* its outcome on raw
    twice,      \* its outcome on the list it returned
    dpc,        \* position of the deduplication harness
    \* EnhancedRetriever
    strategies,         \* self.strategies
    graph_retriever,    \* whether self.graph_retriever is set
    stats,              \* self.stats
    \* one call of retrieve_with_fallback
    pc,                 \* where the call stands
    query,              \* its argument
    processed_query,
    search_queries,
    start_strategy_idx,
    idx,                \* i of the loop over strategies
    qidx,               \* position of the loop over search_queries
    strategy_results,
    returned,           \* what the call returned: results and report
    \* one call of _direct_entity_search
    store,              \* the storage manager and what its graph store answers
    term_idx,           \* position of the loop over search terms
    cypher_idx,         \* position of the loop over cypher_queries
    entity_results,     \* results of _direct_entity_search / _full_text_search
    \* what the call did, in order
    executed,           \* the strategies it started, in order
    observed,           \* per finished strategy: its index and deduplicated count
    calls,              \* number of calls made to each collaborator
    failures,           \* the collaborators that raised during the call
    \* one call of _execute_strategy on its own
    hybrid_answer,      \* what base_retriever.retrieve did
    graph_answer,       \* what graph_retriever.retrieve did
    \* AgenticXGraphRAGDemo: one run of run_build_only, run_demo or run_qa_only
    mode,               \* self.mode
    bpc,                \* where the run stands
    router_dim,         \* embedding_router.get_embedding_dim()
    documents,          \* number of documents in self.documents
    handles,            \* the vector store handles created, in order
    steps,              \* the steps attempted so far, in order, with their outcome
    store_graph,        \* clear_existing of each call of store_graph, in order
    records,            \* the vector records added: collection and dimension
    knowledge_graph,    \* self.knowledge_graph
    kv,                 \* the key-value store of the storage manager
    \* QueryDecomposer: one call of parallel_decompose_and_retrieve
    qd_pc,              \* where the call stands
    parallel_retrieval, \* decomposition_config['parallel_retrieval']
    merge_strategy,     \* decomposition_config['merge_strategy']
    max_merged_results, \* decomposition_config['max_merged_results']
    should_decompose,   \* decomposition_result.should_decompose
    sub_questions,      \* decomposition_result.sub_questions
    sub_answers,        \* what retrieve_single_query did for each sub-question
    sub_results,        \* the list handed to _merge_sub_results
    merged,             \* the list the call returned
    \* AgenticXGraphRAGDemo: one call of _generate_answer
    ga_pc,              \* where the call stands
    ga_results,         \* its argument results
    context_top_k,      \* rag.retrieval.default_top_k
    max_context_length, \* rag.retrieval.max_context_length
    quota_results,      \* context_results after the loop of lines 2117-2149
    context_results,    \* context_results after line 2164
    assembled,          \* context at line 2288
    context,            \* context after line 2307, the one put into the prompt
    ga_outcome,         \* how the call ended
    \* interactive_qa and interactive_mode: one session
    session,            \* which of the two loops runs
    spc,                \* where the loop stands
    demo_instance,      \* interactive_mode: whether demo_instance is set
    user_input,         \* what the last prompt read
    transcript,         \* what each finished iteration did, in order
    ended_by            \* what ended the loop

dedupVars == <<raw, once, twice, dpc>>
retrieverVars == <<strategies, graph_retriever, stats>>
callVars == <<pc, query, processed_query, search_queries, start_strategy_idx, idx, qidx,
              strategy_results, returned>>
entityVars == <<store, term_idx, cypher_idx, entity_results>>
historyVars == <<executed, observed, calls>>
executeVars == <<hybrid_answer, graph_answer>>
buildVars == <<mode, bpc, router_dim, documents, handles, steps, store_graph, records,
               knowledge_graph, kv>>
decomposeVars == <<qd_pc, parallel_retrieval, merge_strategy, max_merged_results,
                   should_decompose, sub_questions, sub_answers, sub_results, merged>>
answerVars == <<ga_pc, ga_results, context_top_k, max_context_length, quota_results,
                context_results, assembled, context, ga_outcome>>
sessionVars == <<session, spc, demo_instance, user_input, transcript, ended_by>>
vars == <<dedupVars, retrieverVars, callVars, entityVars, historyVars, failures,
          executeVars, buildVars, decomposeVars, answerVars, sessionVars>>

-----------------------------------------------------------------------------
(* Result texts *)

Max(a, b) == IF a >= b THEN a ELSE b
Abs(a) == IF a >= 0 THEN a ELSE 0 - a

Range(s) == { s[k] : k \in 1..Len(s) }

RECURSIVE Reverse(_)
Reverse(s) == IF s = <<>> THEN <<>> ELSE Reverse(Tail(s)) \o <<Head(s)>>

\* str.lower() on one character
Lower(c) == IF c = "A" THEN "a" ELSE IF c = "B" THEN "b" ELSE c

W(c, k) == [ch |-> c, n |-> k]

\* some short texts
Txt1 == <<W("a", 1)>>
Txt2 == <<W("b", 1)>>
Txt3 == <<W("c", 1)>>
Txt4 == <<W("d", 1)>>
TxtEmpty == <<>>

\* the run-length form of the text: word, blank, word, ...
RECURSIVE Runs(_)
Runs(text) ==
    IF text = <<>> THEN <<>>
    ELSE IF Len(text) = 1 THEN <<Head(text)>>
    ELSE <<Head(text), W(" ", 1)>> \o Runs(Tail(text))

RECURSIVE RunsLen(_)
RunsLen(rs) == IF rs = <<>> THEN 0 ELSE Head(rs).n + RunsLen(Tail(rs))

\* len(content)
StrLen(text) == RunsLen(Runs(text))

\* the first k characters of a run-length text
RECURSIVE TakeRuns(_, _)
TakeRuns(rs, k) ==
    IF k = 0 \/ rs = <<>> THEN <<>>
    ELSE IF Head(rs).n >= k THEN <<W(Head(rs).ch, k)>>
    ELSE <<Head(rs)>> \o TakeRuns(Tail(rs), k - Head(rs).n)

LowerRuns(rs) == [k \in 1..Len(rs) |-> W(Lower(rs[k].ch), rs[k].n)]

\* content[:k].lower()
PrefixLower(text, k) == LowerRuns(TakeRuns(Runs(text), k))

\* content[-k:].lower()
SuffixLower(text, k) == LowerRuns(Reverse(TakeRuns(Reverse(Runs(text)), k)))

\* set(content.lower().split())
WordSet(text) == { W(Lower(w.ch), w.n) : w \in Range(text) }

-----------------------------------------------------------------------------
(* Query strings: sequences of characters.  A CJK character is written by   *)
(* its pinyin syllable ("shi" is one character).                            *)

CJK == { "zhong", "guo", "tie", "ta", "gong", "si", "shi", "sha", "shen", "me",
         "zen", "yang", "ru", "he", "de", "zuo", "yong", "te", "dian", "ding",
         "yi", "fang", "fa", "wei", "yuan", "yin", "qi", "ye", "ji", "tuan",
         "shu", "xi", "tong", "ping", "tai", "wu", "fu", "chan", "pin", "neng",
         "han", "xiao", "tu", "mu", "di", "zheng", "xing", "zhi", "ying", "za",
         "ban" }
UpperLetters == { "H", "W" }
LowerLetters == { "h", "e", "l", "o", "w", "r", "d" }
Blanks == { " " }

IsSubAt(s, sub, p) ==
    /\ p >= 1
    /\ p + Len(sub) - 1 <= Len(s)
    /\ SubSeq(s, p, p + Len(sub) - 1) = sub

\* sub in s
Contains(s, sub) == \E p \in 1..(Len(s) + 1) : IsSubAt(s, sub, p)

\* str.replace(old, new), old non-empty
RECURSIVE Replace(_, _, _)
Replace(s, old, new) ==
    IF s = <<>> THEN <<>>
    ELSE IF IsSubAt(s, old, 1)
         THEN new \o Replace(SubSeq(s, Len(old) + 1, Len(s)), old, new)
         ELSE <<Head(s)>> \o Replace(Tail(s), old, new)

\* str.strip()
RECURSIVE LStrip(_)
LStrip(s) == IF s # <<>> /\ Head(s) \in Blanks THEN LStrip(Tail(s)) ELSE s
RECURSIVE RStrip(_)
RStrip(s) ==
    IF s # <<>> /\ s[Len(s)] \in Blanks THEN RStrip(SubSeq(s, 1, Len(s) - 1)) ELSE s
Strip(s) == RStrip(LStrip(s))

\* re.sub(r'\s+', ' ', s)
RECURSIVE CollapseBlanks(_)
CollapseBlanks(s) ==
    IF s = <<>> THEN <<>>
    ELSE IF Head(s) \in Blanks
         THEN <<" ">> \o CollapseBlanks(LStrip(s))
         ELSE <<Head(s)>> \o CollapseBlanks(Tail(s))

\* ' '.join(words)
RECURSIVE Join(_)
Join(words) ==
    IF words = <<>> THEN <<>>
    ELSE IF Len(words) = 1 THEN Head(words)
    ELSE Head(words) \o <<" ">> \o Join(Tail(words))

\* the elements of a list without repetition, in order of first occurrence
RECURSIVE Unique(_)
Unique(s) ==
    IF s = <<>> THEN <<>>
    ELSE LET front == Unique(SubSeq(s, 1, Len(s) - 1))
             last == s[Len(s)]
         IN  IF last \in { front[k] : k \in 1..Len(front) } THEN front
             ELSE Append(front, last)

-----------------------------------------------------------------------------
(* ChineseQueryProcessor *)

ShiShenMe == <<"shi", "shen", "me">>
ShiSha == <<"shi", "sha">>
ShenMeShi == <<"shen", "me", "shi">>
ZenMeYang == <<"zen", "me", "yang">>
RuHe == <<"ru", "he">>
DeZuoYong == <<"de", "zuo", "yong">>
DeTeDian == <<"de", "te", "dian">>

\* re.search(r'(.+?)X', q): X preceded by at least one character
MatchesAfterSome(q, x) == \E p \in 2..Len(q) : IsSubAt(q, x, p)
\* re.search(r'X(.+?)', q): X followed by at least one character
MatchesBeforeSome(q, x) == \E p \in 1..Len(q) : IsSubAt(q, x, p) /\ p + Len(x) <= Len(q)

\* self.stop_words, over the characters of the q alphabet
stop_words == { <<"de">>, <<"shi">> }

\* self.synonyms
synonyms(word) ==
    IF word = ShiSha THEN { ShiShenMe, <<"shi">>, <<"ding", "yi">>, <<"han", "yi">> }
    ELSE IF word = ZenMeYang THEN { RuHe, <<"zen", "yang">>, <<"xiao", "guo">> }
    ELSE IF word = <<"zuo", "yong">>
         THEN { <<"gong", "neng">>, <<"yong", "tu">>, <<"mu", "di">> }
    ELSE IF word = <<"te", "dian">>
         THEN { <<"te", "zheng">>, <<"xing", "zhi">>, <<"shu", "xing">> }
    ELSE {}

_normalize_query(q) ==
    LET stripped == CollapseBlanks(Strip(q))
        punct == Replace(Replace(stripped, <<"?F">>, <<"?">>), <<"!F">>, <<"!">>)
        r1 == Replace(punct, ShiSha, ShiShenMe)
        r2 == Replace(r1, <<"za", "yang">>, ZenMeYang)
        r3 == Replace(r2, <<"za", "ban">>, <<"zen", "me", "ban">>)
        r4 == Replace(r3, <<"sha", "yi", "si">>, <<"shen", "me", "yi", "si">>)
    IN  r4

\* (query_type, confidence); the confidence in hundredths
_identify_query_type(q) ==
    IF MatchesAfterSome(q, ShiShenMe) THEN <<"definition", 90>>
    ELSE IF MatchesAfterSome(q, ShiSha) THEN <<"definition", 90>>
    ELSE IF MatchesBeforeSome(q, ShenMeShi) THEN <<"definition", 90>>
    ELSE IF MatchesAfterSome(q, ZenMeYang) THEN <<"evaluation", 90>>
    ELSE IF MatchesAfterSome(q, RuHe) THEN <<"method", 90>>
    ELSE IF MatchesAfterSome(q, DeZuoYong) THEN <<"function", 90>>
    ELSE IF MatchesAfterSome(q, DeTeDian) THEN <<"feature", 90>>
    ELSE IF \E w \in { <<"shen", "me">>, <<"shi">>, <<"ding", "yi">> } : Contains(q, w)
         THEN <<"definition", 70>>
    ELSE IF \E w \in { RuHe, <<"zen", "me">>, <<"fang", "fa">> } : Contains(q, w)
         THEN <<"method", 70>>
    ELSE IF \E w \in { <<"wei", "shen", "me">>, <<"yuan", "yin">> } : Contains(q, w)
         THEN <<"reason", 70>>
    ELSE <<"general", 50>>

\* jieba.cut(q): the segmentation the library gives for the queries used
jieba_cut(q) ==
    IF q = <<"h", "e", "l", "l", "o">> THEN << <<"h", "e", "l", "l", "o">> >>
    ELSE IF q = <<"tie", "ta", "shi", "shen", "me">>
         THEN << <<"tie", "ta">>, <<"shi">>, <<"shen", "me">> >>
    ELSE IF q = <<"zhong", "guo", "tie", "ta", "gong", "si">>
         THEN << <<"zhong", "guo">>, <<"tie", "ta">>, <<"gong", "si">> >>
    ELSE IF q = <<"tie", "ta", "gong", "si", " ", "zen", "me", "yang", "?">>
         THEN << <<"tie", "ta">>, <<"gong", "si">>, <<" ">>, <<"zen", "me", "yang">>, <<"?">> >>
    ELSE << q >>

IsPunctuation(word) == \A k \in 1..Len(word) : word[k] \in { "?", "!", " " }

_extract_keywords(q) ==
    LET words == jieba_cut(q)
        stripped == [k \in 1..Len(words) |-> Strip(words[k])]
        Keep(word) == Len(word) > 1 /\ word \notin stop_words /\ ~IsPunctuation(word)
    IN  SelectSeq(stripped, Keep)

\* the length of the longest run of characters of class C starting at p
RECURSIVE RunLen(_, _, _)
RunLen(s, p, C) == IF p <= Len(s) /\ s[p] \in C THEN 1 + RunLen(s, p + 1, C) ELSE 0

\* [A-Z][a-z]+ at p: the position after the match, 0 when there is none
CapWordEnd(s, p) ==
    IF p <= Len(s) /\ s[p] \in UpperLetters /\ RunLen(s, p + 1, LowerLetters) >= 1
    THEN p + 1 + RunLen(s, p + 1, LowerLetters)
    ELSE 0

\* (?:\s+[A-Z][a-z]+)* from p: the position after the last group matched
RECURSIVE CapSeqEnd(_, _)
CapSeqEnd(s, p) ==
    LET blanks == RunLen(s, p, Blanks)
        next == IF blanks >= 1 THEN CapWordEnd(s, p + blanks) ELSE 0
    IN  IF next = 0 THEN p ELSE CapSeqEnd(s, next)

\* re.findall(r'([A-Z][a-z]+(?:\s+[A-Z][a-z]+)*)', s) from position p
RECURSIVE FindEnglish(_, _)
FindEnglish(s, p) ==
    IF p > Len(s) THEN <<>>
    ELSE LET first == CapWordEnd(s, p)
         IN  IF first = 0 THEN FindEnglish(s, p + 1)
             ELSE LET stop == CapSeqEnd(s, first)
                  IN  <<SubSeq(s, p, stop - 1)>> \o FindEnglish(s, stop)

Suffixes == { <<"gong", "si">>, <<"qi", "ye">>, <<"ji", "tuan">>, <<"ji", "shu">>,
              <<"xi", "tong">>, <<"ping", "tai">> }

\* [CJK]{2,}(?:suffix) at p: the greatest count of characters before a suffix
SuffixedLen(s, p) ==
    LET run == RunLen(s, p, CJK)
        ok == { n \in 2..run : \E x \in Suffixes : IsSubAt(s, x, p + n) }
    IN  IF ok = {} THEN 0 ELSE CHOOSE n \in ok : \A m \in ok : m <= n

RECURSIVE FindSuffixed(_, _)
FindSuffixed(s, p) ==
    IF p > Len(s) THEN <<>>
    ELSE LET n == SuffixedLen(s, p)
         IN  IF n = 0 THEN FindSuffixed(s, p + 1)
             ELSE <<SubSeq(s, p, p + n + 1)>> \o FindSuffixed(s, p + n + 2)

\* re.findall(r'([CJK]{2,})', s) from position p
RECURSIVE FindCJK(_, _)
FindCJK(s, p) ==
    IF p > Len(s) THEN <<>>
    ELSE LET run == RunLen(s, p, CJK)
         IN  IF run >= 2 THEN <<SubSeq(s, p, p + run - 1)>> \o FindCJK(s, p + run)
             ELSE FindCJK(s, p + Max(run, 1))

_extract_entities(q) ==
    LET entities == FindEnglish(q, 1) \o FindSuffixed(q, 1) \o FindCJK(q, 1)
        Keep(entity) == Len(entity) > 1
    IN  SelectSeq(Unique(entities), Keep)

HasAny(entity, parts) == \E x \in parts : Contains(entity, x)

\* the set behind _expand_query's list(expanded)
ExpandedSet(keywords, entities) ==
    LET base == Range(keywords) \cup Range(entities)
        syn == UNION { synonyms(keywords[k]) : k \in 1..Len(keywords) }
        Hint(entity) ==
            IF HasAny(entity, { <<"gong", "si">>, <<"qi", "ye">>, <<"ji", "tuan">> })
            THEN { <<"ye", "wu">>, <<"fu", "wu">>, <<"chan", "pin">> }
            ELSE IF HasAny(entity, { <<"ji", "shu">>, <<"xi", "tong">>, <<"ping", "tai">> })
            THEN { <<"ying", "yong">>, <<"gong", "neng">>, <<"te", "dian">> }
            ELSE {}
        hints == UNION { Hint(entities[k]) : k \in 1..Len(entities) }
    IN  base \cup syn \cup hints

\* the orders a list made from the set S can come out in
Orderings(S) ==
    { f \in [1..Cardinality(S) -> S] : \A a, b \in 1..Cardinality(S) : a # b => f[a] # f[b] }

\* expanded_terms is list(expanded) of a set: its order is not fixed, and it is
\* kept here as the set; generate_search_queries is given the order it reads
process_query(q) ==
    LET normalized == _normalize_query(q)
        typed == _identify_query_type(normalized)
        keywords == _extract_keywords(normalized)
        entities == _extract_entities(normalized)
    IN  [ original |-> q,
          normalized |-> normalized,
          keywords |-> keywords,
          entities |-> entities,
          expanded_terms |-> ExpandedSet(keywords, entities),
          query_type |-> typed[1],
          confidence |-> typed[2] ]

\* the expanded terms generate_search_queries keeps (lines 228-229)
ImportantTerms(pq) ==
    { term \in pq.expanded_terms :
        Len(term) > 2 /\ term \notin Range(pq.keywords) }

Take(s, n) == IF Len(s) <= n THEN s ELSE SubSeq(s, 1, n)

\* important_terms: ImportantTerms in the order expanded_terms lists them
generate_search_queries(pq, important_terms) ==
    LET q1 == <<pq.original>>
        q2 == IF pq.normalized # pq.original
              THEN <<pq.normalized>> ELSE <<>>
        q3 == IF Len(pq.keywords) > 1
              THEN <<Join(pq.keywords)>> ELSE <<>>
        LongEnough(entity) == Len(entity) > 2
        q4 == SelectSeq(pq.entities, LongEnough)
        q5 == IF important_terms # <<>> THEN <<Join(Take(important_terms, 3))>> ELSE <<>>
    IN  Unique(q1 \o q2 \o q3 \o q4 \o q5)

-----------------------------------------------------------------------------
(* EnhancedRetriever._is_content_similar *)

\* abs(len1 - len2) / max(len1, len2) divides by zero when both are empty
_is_content_similar_raises(content1, content2) ==
    Max(StrLen(content1), StrLen(content2)) = 0

\* mutant: the overlap bounds taken as "at least" instead of "above"
_is_content_similar_ge(content1, content2, threshold) ==
    LET len1 == StrLen(content1)
        len2 == StrLen(content2)
        words1 == WordSet(content1)
        words2 == WordSet(content2)
        intersection == Cardinality(words1 \cap words2)
        union == Cardinality(words1 \cup words2)
        start_similar == PrefixLower(content1, 100) = PrefixLower(content2, 100)
        end_similar == SuffixLower(content1, 100) = SuffixLower(content2, 100)
    IN  IF 100 * Abs(len1 - len2) > 30 * Max(len1, len2) THEN FALSE
        ELSE IF words1 = {} \/ words2 = {} THEN FALSE
        ELSE \/ 100 * intersection >= threshold * union
             \/ (start_similar /\ end_similar /\ 100 * intersection >= 80 * union)

_is_content_similar(content1, content2, threshold) ==
    LET len1 == StrLen(content1)
        len2 == StrLen(content2)
        words1 == WordSet(content1)
        words2 == WordSet(content2)
        intersection == Cardinality(words1 \cap words2)
        union == Cardinality(words1 \cup words2)
        start_similar == PrefixLower(content1, 100) = PrefixLower(content2, 100)
        end_similar == SuffixLower(content1, 100) = SuffixLower(content2, 100)
    IN  IF 100 * Abs(len1 - len2) > 30 * Max(len1, len2) THEN FALSE
        ELSE IF words1 = {} \/ words2 = {} THEN FALSE
        ELSE \/ 100 * intersection > threshold * union
             \/ (start_similar /\ end_similar /\ 100 * intersection > 80 * union)

-----------------------------------------------------------------------------
(* EnhancedRetriever._deduplicate_results *)

NoId == "None"

\* mutants of the scan window: unique_results[-1:] and unique_results[-2:]
LastOne(s) == IF Len(s) <= 1 THEN s ELSE SubSeq(s, Len(s), Len(s))
LastTwo(s) == IF Len(s) <= 2 THEN s ELSE SubSeq(s, Len(s) - 1, Len(s))

\* unique_results[-3:]
LastThree(s) == IF Len(s) <= 3 THEN s ELSE SubSeq(s, Len(s) - 2, Len(s))

\* list.sort(key=score, reverse=True): stable, equal scores keep their order
RECURSIVE InsertByScore(_, _)
InsertByScore(sorted, r) ==
    IF sorted = <<>> THEN <<r>>
    ELSE IF Head(sorted).score >= r.score
         THEN <<Head(sorted)>> \o InsertByScore(Tail(sorted), r)
         ELSE <<r>> \o sorted

\* mutant: the list is returned in the order it was collected
SortByScoreOmitted(s) == s

RECURSIVE SortByScore(_)
SortByScore(s) ==
    IF s = <<>> THEN <<>>
    ELSE InsertByScore(SortByScore(SubSeq(s, 1, Len(s) - 1)), s[Len(s)])

\* one iteration of the loop over results (lines 532-552)
DedupStep(st, result) ==
    IF st.raised THEN st
    ELSE
      LET by_id == result.chunk_id # NoId /\ result.chunk_id \in st.seen_chunk_ids
          seen2 == IF result.chunk_id # NoId
                   THEN st.seen_chunk_ids \cup {result.chunk_id}
                   ELSE st.seen_chunk_ids
          window == LastThree(st.unique_results)
          \* the scan stops at the first similar one; a comparison before it may raise
          hit == { k \in 1..Len(window) :
                     /\ ~_is_content_similar_raises(result.content, window[k].content)
                     /\ _is_content_similar(result.content, window[k].content, 95) }
          boom == { k \in 1..Len(window) :
                     _is_content_similar_raises(result.content, window[k].content) }
          stop == IF hit = {} THEN Len(window) + 1
                  ELSE CHOOSE k \in hit : \A j \in hit : k <= j
          raises == ~by_id /\ \E k \in boom : k < stop
          by_content == ~by_id /\ hit # {}
      IN  IF raises
          THEN [st EXCEPT !.raised = TRUE, !.seen_chunk_ids = seen2]
          ELSE [st EXCEPT !.seen_chunk_ids = seen2,
                          !.pos = @ + 1,
                          !.kept = IF by_id \/ by_content THEN @ ELSE @ \cup {st.pos + 1},
                          !.unique_results =
                              IF by_id \/ by_content THEN @ ELSE Append(@, result)]

RECURSIVE DedupLoop(_, _)
DedupLoop(st, results) ==
    IF results = <<>> THEN st
    ELSE DedupLoop(DedupStep(st, Head(results)), Tail(results))

\* the loop from its initial state; pos and kept record which positions of the
\* input were appended to unique_results
DedupRun(results) ==
    DedupLoop([raised |-> FALSE, seen_chunk_ids |-> {}, unique_results |-> <<>>,
               pos |-> 0, kept |-> {}], results)

\* Outcome: raised (ZeroDivisionError escaped) or the returned list
_deduplicate_results(results) ==
    IF results = <<>> THEN [raised |-> FALSE, results |-> <<>>]
    ELSE LET st == DedupRun(results)
         IN  IF st.raised THEN [raised |-> TRUE, results |-> <<>>]
             ELSE [raised |-> FALSE, results |-> SortByScore(st.unique_results)]

-----------------------------------------------------------------------------
(* EnhancedRetriever.__init__ *)

RetrievalStrategy(name, vector_threshold, graph_threshold, bm25_min_score, top_k) ==
    [ name |-> name, vector_threshold |-> vector_threshold,
      graph_threshold |-> graph_threshold, bm25_min_score |-> bm25_min_score,
      top_k |-> top_k ]

\* mutant: the relaxed graph threshold above the standard one
LadderNotMonotone ==
    << RetrievalStrategy("strict", 50, 40, 25, 30),
       RetrievalStrategy("standard", 30, 20, 15, 60),
       RetrievalStrategy("relaxed", 20, 30, 8, 100),
       RetrievalStrategy("fuzzy", 15, 8, 4, 150),
       RetrievalStrategy("aggressive", 10, 5, 2, 200) >>

\* self.strategies as __init__ sets it
Ladder ==
    << RetrievalStrategy("strict", 50, 40, 25, 30),
       RetrievalStrategy("standard", 30, 20, 15, 60),
       RetrievalStrategy("relaxed", 20, 10, 8, 100),
       RetrievalStrategy("fuzzy", 15, 8, 4, 150),
       RetrievalStrategy("aggressive", 10, 5, 2, 200) >>

StrategyNames == { Ladder[k].name : k \in 1..Len(Ladder) }

InitialStats ==
    [ total_queries |-> 0, successful_queries |-> 0,
      strategy_usage |-> [n \in StrategyNames |-> 0] ]

-----------------------------------------------------------------------------
(* EnhancedRetriever._select_start_strategy *)

complex_query_types ==
    { "specific_inquiry", "commitment_inquiry", "enumeration", "classification",
      "service_inquiry" }

\* mutant: a query of exactly 20 characters already counts as long
_select_start_strategy_ge20(pq) ==
    IF pq.query_type \in complex_query_types THEN 2
    ELSE IF Len(pq.original) >= 20 THEN 2
    ELSE IF Len(pq.keywords) >= 3 THEN 1
    ELSE IF pq.confidence > 80 /\ Len(pq.entities) > 0 /\ Len(pq.original) < 15 THEN 0
    ELSE IF pq.confidence > 60 THEN 1
    ELSE 2

_select_start_strategy(pq) ==
    IF pq.query_type \in complex_query_types THEN 2
    ELSE IF Len(pq.original) > 20 THEN 2
    ELSE IF Len(pq.keywords) >= 3 THEN 1
    ELSE IF pq.confidence > 80 /\ Len(pq.entities) > 0 /\ Len(pq.original) < 15 THEN 0
    ELSE IF pq.confidence > 60 THEN 1
    ELSE 2

-----------------------------------------------------------------------------
(* EnhancedRetriever._execute_strategy *)

\* a result as a retriever hands it over: search_source is the tag the hybrid
\* retriever put on it, source_type the tag _execute_strategy puts on it
Hit(content, score, chunk_id, search_source) ==
    [ content |-> content, score |-> score, chunk_id |-> chunk_id,
      search_source |-> search_source, source_type |-> "unknown" ]

Returned(results) == [raised |-> FALSE, results |-> results]
Raised == [raised |-> TRUE, results |-> <<>>]

Tag(results, source_type) ==
    [k \in 1..Len(results) |-> [results[k] EXCEPT !.source_type = source_type]]

\* the final filter by source_type (lines 291-305)
FinalKeep(r, strategy) ==
    IF r.source_type = "graph" THEN r.score >= strategy.graph_threshold
    ELSE IF r.source_type = "vector" THEN r.score >= strategy.vector_threshold
    ELSE r.score >= strategy.bm25_min_score

\* hybrid, graph: what base_retriever.retrieve and graph_retriever.retrieve do
\* (return a list or raise); has_graph: self.graph_retriever is set
_execute_strategy(strategy, hybrid, graph, has_graph) ==
    IF hybrid.raised THEN <<>>
    ELSE
      LET AboveVector(r) == r.score >= strategy.vector_threshold
          AboveGraph(r) == r.score >= strategy.graph_threshold
          filtered_hybrid == Tag(SelectSeq(hybrid.results, AboveVector), "vector")
          filtered_graph ==
              IF has_graph /\ ~graph.raised
              THEN Tag(SelectSeq(graph.results, AboveGraph), "graph")
              ELSE <<>>
          results == filtered_hybrid \o filtered_graph
          Final(r) == FinalKeep(r, strategy)
      IN  SelectSeq(results, Final)

\* what the base (hybrid) retriever may answer to one call
BaseOutcomes ==
    { Raised,
      Returned(<<>>),
      Returned(<<Hit(Txt1, 55, "k1", "vector")>>),
      Returned(<<Hit(Txt2, 30, "k2", "bm25")>>),
      Returned(<<Hit(Txt3, 12, "k3", "vector"), Hit(Txt3, 12, "k4", "bm25")>>),
      Returned(<<Hit(TxtEmpty, 60, NoId, "vector"), Hit(TxtEmpty, 60, NoId, "bm25")>>) }

\* what the graph retriever may answer to one call
GraphOutcomes ==
    { Raised,
      Returned(<<>>),
      Returned(<<Hit(Txt4, 9, NoId, "graph")>>) }

-----------------------------------------------------------------------------
(* EnhancedRetriever.retrieve_with_fallback *)

NoQuery == [ original |-> <<>>, normalized |-> <<>>, keywords |-> <<>>,
             entities |-> <<>>, expanded_terms |-> {}, query_type |-> "none",
             confidence |-> 0 ]

NotReturned == [results |-> <<>>, report |-> [pending |-> TRUE]]

NoCalls == [base |-> 0, graph |-> 0, cypher |-> 0, fulltext |-> 0, advisory |-> 0]

NoStore == [manager |-> FALSE, graph |-> FALSE,
            rows |-> [k \in 1..4 |-> "none"], fulltext |-> "none"]

System(content, type) ==
    [ content |-> content, score |-> 100, chunk_id |-> NoId,
      search_source |-> "system", source_type |-> "unknown", type |-> type ]

\* the texts of the two synthesized answers (their wording is not modelled)
GreetingText == <<W("g", 5)>>
HelpText == <<W("p", 5)>>

Report(original_query, pq, queries, strategy_used, total_results, success) ==
    [ original_query |-> original_query, processed_query |-> pq,
      search_queries |-> queries, strategy_used |-> strategy_used,
      total_results |-> total_results, success |-> success ]

\* the report of the greeting and help handlers has no original_query
HandlerReport(pq, q, strategy_used) ==
    [ processed_query |-> pq, search_queries |-> <<q>>,
      strategy_used |-> strategy_used, total_results |-> 1, success |-> TRUE ]

ErrorReport == [error |-> "exception", success |-> FALSE]

\* steps 6 and 7: statistics and report, then return
Finish(all_results, strategy_used, stats_now) ==
    /\ stats' = IF all_results # <<>>
                THEN [stats_now EXCEPT !.successful_queries = @ + 1]
                ELSE stats_now
    /\ returned' = [ results |-> all_results,
                     report |-> Report(query, processed_query, search_queries,
                                       strategy_used, Len(all_results),
                                       Len(all_results) > 0) ]
    /\ pc' = "done"

\* mutant: the except clause raises again instead of returning
FailRaisesAgain ==
    /\ returned' = returned
    /\ pc' = "raised"

\* the except clause of retrieve_with_fallback
Fail ==
    /\ returned' = [results |-> <<>>, report |-> ErrorReport]
    /\ pc' = "done"

\* line 107 and line 111
Begin ==
    /\ pc = "start"
    /\ stats' = [stats EXCEPT !.total_queries = @ + 1]
    /\ processed_query' = process_query(query)
    /\ pc' = "analyzed"
    /\ UNCHANGED <<answerVars, sessionVars, decomposeVars, buildVars, executeVars, failures,
                   dedupVars, strategies, graph_retriever, query, search_queries,
                   start_strategy_idx, idx, qidx, strategy_results, returned,
                   entityVars, historyVars>>

\* mutant: the greeting and help handlers are missing
DispatchNoHandlers ==
    /\ pc = "analyzed"
    /\ \E important_terms \in Orderings(ImportantTerms(processed_query)) :
         search_queries' = generate_search_queries(processed_query, important_terms)
    /\ start_strategy_idx' = _select_start_strategy(processed_query)
    /\ idx' = _select_start_strategy(processed_query)
    /\ qidx' = 1
    /\ strategy_results' = <<>>
    /\ pc' = "ladder"
    /\ UNCHANGED <<answerVars, sessionVars, decomposeVars, buildVars, executeVars, failures,
                   dedupVars, retrieverVars, query, processed_query, returned,
                   entityVars, historyVars>>

\* lines 115-156: the two handlers, else the search queries and the start index
Dispatch ==
    /\ pc = "analyzed"
    /\ IF processed_query.query_type = "greeting"
       THEN /\ returned' =
                 [ results |-> <<System(GreetingText, "greeting_response")>>,
                   report |-> HandlerReport(processed_query, query, "greeting_handler") ]
            /\ pc' = "done"
            /\ UNCHANGED <<search_queries, start_strategy_idx, idx, qidx, strategy_results>>
       ELSE IF processed_query.query_type = "meaningless"
       THEN /\ returned' =
                 [ results |-> <<System(HelpText, "help_response")>>,
                   report |-> HandlerReport(processed_query, query, "help_handler") ]
            /\ pc' = "done"
            /\ UNCHANGED <<search_queries, start_strategy_idx, idx, qidx, strategy_results>>
       ELSE /\ \E important_terms \in Orderings(ImportantTerms(processed_query)) :
                 search_queries' = generate_search_queries(processed_query, important_terms)
            /\ start_strategy_idx' = _select_start_strategy(processed_query)
            /\ idx' = _select_start_strategy(processed_query)
            /\ qidx' = 1
            /\ strategy_results' = <<>>
            /\ pc' = "ladder"
            /\ UNCHANGED returned
    /\ UNCHANGED <<answerVars, sessionVars, decomposeVars, buildVars, executeVars, failures,
                   dedupVars, retrieverVars, query, processed_query, entityVars, historyVars>>

\* one pass of the loop over search_queries (lines 162-165)
ExecuteStrategy ==
    /\ pc = "ladder"
    /\ qidx <= Len(search_queries)
    /\ \E hybrid \in BaseOutcomes, graph \in GraphOutcomes :
         /\ strategy_results' = strategy_results \o
                _execute_strategy(strategies[idx + 1], hybrid, graph, graph_retriever)
         /\ calls' = [calls EXCEPT
                        !.base = @ + 1,
                        !.graph = @ + (IF graph_retriever /\ ~hybrid.raised THEN 1 ELSE 0)]
         /\ failures' = failures
                \cup (IF hybrid.raised THEN {"base"} ELSE {})
                \cup (IF graph_retriever /\ ~hybrid.raised /\ graph.raised
                      THEN {"graph"} ELSE {})
    /\ executed' = IF qidx = 1 THEN Append(executed, idx) ELSE executed
    /\ qidx' = qidx + 1
    /\ UNCHANGED <<answerVars, sessionVars, decomposeVars, buildVars, executeVars,
                   dedupVars, retrieverVars, pc, query, processed_query, search_queries,
                   start_strategy_idx, idx, returned, entityVars, observed>>

\* mutant: the loop over strategies does not break on a non-empty list
FinishStrategyNoBreak ==
    /\ pc = "ladder"
    /\ qidx > Len(search_queries)
    /\ LET unique == _deduplicate_results(strategy_results)
       IN  IF unique.raised
           THEN /\ Fail
                /\ failures' = failures \cup {"dedup"}
                /\ UNCHANGED <<stats, idx, qidx, strategy_results, observed>>
           ELSE /\ UNCHANGED failures
                /\ observed' = Append(observed, [idx |-> idx, n |-> Len(unique.results)])
                /\ IF idx + 1 < Len(strategies)
                   THEN /\ idx' = idx + 1
                        /\ qidx' = 1
                        /\ strategy_results' = <<>>
                        /\ UNCHANGED <<stats, returned, pc>>
                   ELSE IF unique.results # <<>>
                   THEN /\ Finish(unique.results, strategies[idx + 1].name,
                                  [stats EXCEPT !.strategy_usage[strategies[idx + 1].name] = @ + 1])
                        /\ UNCHANGED <<idx, qidx, strategy_results>>
                   ELSE /\ pc' = "entity"
                        /\ UNCHANGED <<stats, returned, idx, qidx, strategy_results>>
    /\ UNCHANGED <<answerVars, sessionVars, decomposeVars, buildVars, executeVars,
                   dedupVars, strategies, graph_retriever, query, processed_query,
                   search_queries, start_strategy_idx, entityVars, executed, calls>>

\* lines 167-188: deduplicate, lock the strategy in or go on to the next one,
\* and after the last one to the direct entity search
FinishStrategy ==
    /\ pc = "ladder"
    /\ qidx > Len(search_queries)
    /\ LET unique == _deduplicate_results(strategy_results)
       IN  IF unique.raised
           THEN /\ Fail
                /\ failures' = failures \cup {"dedup"}
                /\ UNCHANGED <<stats, idx, qidx, strategy_results, observed>>
           ELSE /\ UNCHANGED failures
                /\ observed' = Append(observed, [idx |-> idx, n |-> Len(unique.results)])
                /\ IF unique.results # <<>>
                   THEN /\ Finish(unique.results, strategies[idx + 1].name,
                                  [stats EXCEPT !.strategy_usage[strategies[idx + 1].name] = @ + 1])
                        /\ UNCHANGED <<idx, qidx, strategy_results>>
                   ELSE IF idx + 1 < Len(strategies)
                   THEN /\ idx' = idx + 1
                        /\ qidx' = 1
                        /\ strategy_results' = <<>>
                        /\ UNCHANGED <<stats, returned, pc>>
                   ELSE /\ pc' = "entity"
                        /\ UNCHANGED <<stats, returned, idx, qidx, strategy_results>>
    /\ UNCHANGED <<answerVars, sessionVars, decomposeVars, buildVars, executeVars,
                   dedupVars, strategies, graph_retriever, query, processed_query,
                   search_queries, start_strategy_idx, entityVars, executed, calls>>

-----------------------------------------------------------------------------
(* EnhancedRetriever._direct_entity_search, _full_text_search,              *)
(* _get_fallback_results                                                    *)

\* What the storage manager holds when the search reaches it: manager: the
\* storage manager is set; graph: get_storage returns a graph store; rows[k]:
\* the answer of the store to the k-th Cypher query of a term ("none": no row,
\* "hit": a row with a name, "described": a row with name and description,
\* "noname": a row without name, "raise": execute_query raises); fulltext: its
\* answer to the full-text query ("blank": a node without name, content or
\* description)
StoreOf(manager, graph, r1, r2, r3, r4, fulltext) ==
    [ manager |-> manager, graph |-> graph,
      rows |-> <<r1, r2, r3, r4>>, fulltext |-> fulltext ]

Stores ==
    { StoreOf(FALSE, FALSE, "none", "none", "none", "none", "none"),
      StoreOf(TRUE, FALSE, "none", "none", "none", "none", "none"),
      StoreOf(TRUE, TRUE, "none", "none", "none", "none", "none"),
      StoreOf(TRUE, TRUE, "hit", "hit", "none", "described", "none"),
      StoreOf(TRUE, TRUE, "noname", "raise", "none", "none", "hit"),
      StoreOf(TRUE, TRUE, "none", "none", "raise", "none", "raise"),
      StoreOf(TRUE, TRUE, "raise", "raise", "raise", "raise", "blank") }

\* the relevance each of the four Cypher queries returns
Relevance == <<100, 80, 60, 40>>

\* "entity: <name>" and its description line; a word stands for each part
EntityText == <<W("E", 3), W("n", 2)>>
DescribedText == <<W("E", 3), W("n", 2), W("D", 3), W("t", 9)>>
NodeText == <<W("N", 3), W("n", 2)>>
FallbackText == <<W("f", 9)>>

\* search_terms of _direct_entity_search and of _full_text_search
EntityTerms ==
    processed_query.entities \o processed_query.keywords \o <<processed_query.original>>
FullTextTerms == <<processed_query.original>> \o processed_query.keywords

\* the rows of one Cypher query turned into results (lines 382-402)
RowResults(answer, k) ==
    IF answer = "hit" THEN <<Hit(EntityText, Relevance[k], NoId, "direct_entity")>>
    ELSE IF answer = "described"
         THEN <<Hit(DescribedText, Relevance[k], NoId, "direct_entity")>>
    ELSE <<>>

\* lines 315-325 and 328
EntityBegin ==
    /\ pc = "entity"
    /\ \E s \in Stores : store' = s
    /\ IF store'.manager /\ store'.graph
       THEN /\ pc' = "cypher"
            /\ term_idx' = 1
            /\ cypher_idx' = 1
            /\ entity_results' = <<>>
            /\ UNCHANGED <<stats, returned>>
       ELSE /\ Finish(<<>>, "none", stats)
            /\ UNCHANGED <<term_idx, cypher_idx, entity_results>>
    /\ UNCHANGED <<answerVars, sessionVars, decomposeVars, buildVars, executeVars, failures,
                   dedupVars, strategies, graph_retriever, query, processed_query,
                   search_queries, start_strategy_idx, idx, qidx, strategy_results,
                   historyVars>>

\* one Cypher query of one term (lines 330-406); an empty term is skipped
CypherQuery ==
    /\ pc = "cypher"
    /\ term_idx <= Len(EntityTerms)
    /\ IF Len(EntityTerms[term_idx]) < 1
       THEN /\ term_idx' = term_idx + 1
            /\ UNCHANGED <<cypher_idx, entity_results, calls, failures>>
       ELSE /\ entity_results' =
                 entity_results \o RowResults(store.rows[cypher_idx], cypher_idx)
            /\ calls' = [calls EXCEPT !.cypher = @ + 1]
            /\ failures' = failures
                   \cup (IF store.rows[cypher_idx] = "raise" THEN {"store"} ELSE {})
            /\ IF cypher_idx < 4
               THEN cypher_idx' = cypher_idx + 1 /\ UNCHANGED term_idx
               ELSE cypher_idx' = 1 /\ term_idx' = term_idx + 1
    /\ UNCHANGED <<answerVars, sessionVars, decomposeVars, buildVars, executeVars,
                   dedupVars, retrieverVars, callVars, store, executed, observed>>

\* mutant: the full-text scan runs whatever the entity search found
AfterCypherAlwaysScan ==
    /\ pc = "cypher"
    /\ term_idx > Len(EntityTerms)
    /\ pc' = "fulltext"
    /\ term_idx' = 1
    /\ UNCHANGED <<answerVars, sessionVars, decomposeVars, buildVars, executeVars, failures,
                   dedupVars, retrieverVars, query, processed_query, search_queries,
                   start_strategy_idx, idx, qidx, strategy_results, returned,
                   store, cypher_idx, entity_results, historyVars>>

\* lines 408-411: the full-text scan only when the entity search found nothing
AfterCypher ==
    /\ pc = "cypher"
    /\ term_idx > Len(EntityTerms)
    /\ IF entity_results = <<>>
       THEN pc' = "fulltext" /\ term_idx' = 1
       ELSE pc' = "entity_finish" /\ UNCHANGED term_idx
    /\ UNCHANGED <<answerVars, sessionVars, decomposeVars, buildVars, executeVars, failures,
                   dedupVars, retrieverVars, query, processed_query, search_queries,
                   start_strategy_idx, idx, qidx, strategy_results, returned,
                   store, cypher_idx, entity_results, historyVars>>

\* one pass of the loop of _full_text_search (lines 435-477); a term shorter
\* than two characters is skipped, an exception ends the scan
FullTextQuery ==
    /\ pc = "fulltext"
    /\ IF term_idx > Len(FullTextTerms)
       THEN /\ pc' = "entity_finish"
            /\ UNCHANGED <<term_idx, entity_results, calls, failures>>
       ELSE IF Len(FullTextTerms[term_idx]) < 2
       THEN /\ term_idx' = term_idx + 1
            /\ UNCHANGED <<pc, entity_results, calls, failures>>
       ELSE /\ calls' = [calls EXCEPT !.fulltext = @ + 1]
            /\ failures' = failures
                   \cup (IF store.fulltext = "raise" THEN {"store"} ELSE {})
            /\ IF store.fulltext = "raise"
               THEN pc' = "entity_finish" /\ UNCHANGED <<term_idx, entity_results>>
               ELSE /\ entity_results' = entity_results \o
                          (IF store.fulltext = "hit"
                           THEN <<Hit(NodeText, 30, NoId, "full_text")>> ELSE <<>>)
                    /\ term_idx' = term_idx + 1
                    /\ UNCHANGED pc
    /\ UNCHANGED <<answerVars, sessionVars, decomposeVars, buildVars, executeVars,
                   dedupVars, retrieverVars, query, processed_query, search_queries,
                   start_strategy_idx, idx, qidx, strategy_results, returned,
                   store, cypher_idx, executed, observed>>

\* lines 413-425 and back in retrieve_with_fallback lines 186-208
EntityFinish ==
    /\ pc = "entity_finish"
    /\ LET unique == _deduplicate_results(entity_results)
           advised == ~unique.raised /\ unique.results = <<>>
           found == IF unique.raised THEN <<>>
                    ELSE IF advised
                         THEN <<Hit(FallbackText, 10, NoId, "system_fallback")>>
                    ELSE Take(unique.results, 10)
       IN  /\ failures' = failures \cup (IF unique.raised THEN {"entity_dedup"} ELSE {})
           /\ calls' = [calls EXCEPT !.advisory = @ + (IF advised THEN 1 ELSE 0)]
           /\ Finish(found, IF found # <<>> THEN "entity_search" ELSE "none", stats)
    /\ UNCHANGED <<answerVars, sessionVars, decomposeVars, buildVars, executeVars,
                   dedupVars, strategies, graph_retriever, query, processed_query,
                   search_queries, start_strategy_idx, idx, qidx, strategy_results,
                   entityVars, executed, observed>>

-----------------------------------------------------------------------------
(* One call of retrieve_with_fallback on a query *)

Hello == <<"h", "e", "l", "l", "o">>
TieTaShiSha == <<"tie", "ta", "shi", "sha">>
ZhongGuoTieTaGongSi == <<"zhong", "guo", "tie", "ta", "gong", "si">>

\* " 铁塔公司  怎么样？": the analyzer turns it into five search queries
TieTaGongSiZenMeYang ==
    <<" ", "tie", "ta", "gong", "si", " ", " ", "zen", "me", "yang", "?F">>

Queries == { Hello, TieTaShiSha, ZhongGuoTieTaGongSi }

DedupIdle ==
    /\ raw = <<>>
    /\ once = [raised |-> FALSE, results |-> <<>>]
    /\ twice = [raised |-> FALSE, results |-> <<>>]
    /\ dpc = "off"

\* _execute_strategy is not looked at on its own
ExecuteIdle ==
    /\ hybrid_answer = Returned(<<>>)
    /\ graph_answer = Returned(<<>>)

\* self.knowledge_graph = None
NoGraph == [entities |-> {}, relationships |-> <<>>]

\* get_key_value_storage('default') returns nothing
NoKV == [available |-> FALSE, data |-> <<>>]

\* no call of the query decomposer under way
DecomposeIdle ==
    /\ qd_pc = "off"
    /\ parallel_retrieval = TRUE
    /\ merge_strategy = "weighted_score"
    /\ max_merged_results = 0
    /\ should_decompose = FALSE
    /\ sub_questions = <<>>
    /\ sub_answers = <<>>
    /\ sub_results = <<>>
    /\ merged = <<>>

\* no call of _generate_answer under way
AnswerIdle ==
    /\ ga_pc = "off"
    /\ ga_results = <<>>
    /\ context_top_k = 0
    /\ max_context_length = 0
    /\ quota_results = <<>>
    /\ context_results = <<>>
    /\ assembled = <<>>
    /\ context = <<>>
    /\ ga_outcome = "none"

\* no interactive session under way
SessionIdle ==
    /\ session = "none"
    /\ spc = "off"
    /\ demo_instance = FALSE
    /\ user_input = "none"
    /\ transcript = <<>>
    /\ ended_by = "none"

\* nothing outside the retriever and the build under way
SideIdle == DecomposeIdle /\ AnswerIdle /\ SessionIdle

\* no run of the demo under way
BuildIdle ==
    /\ mode = "qa"
    /\ bpc = "off"
    /\ router_dim = 0
    /\ documents = 0
    /\ handles = <<>>
    /\ steps = <<>>
    /\ store_graph = <<>>
    /\ records = {}
    /\ knowledge_graph = NoGraph
    /\ kv = NoKV

CallIdle ==
    /\ search_queries = <<>>
    /\ start_strategy_idx = 0
    /\ idx = 0
    /\ qidx = 1
    /\ strategy_results = <<>>
    /\ returned = NotReturned
    /\ store = NoStore
    /\ term_idx = 1
    /\ cypher_idx = 1
    /\ entity_results = <<>>
    /\ executed = <<>>
    /\ observed = <<>>
    /\ calls = NoCalls
    /\ failures = {}
    /\ ExecuteIdle
    /\ SideIdle
    /\ BuildIdle

Init ==
    /\ DedupIdle
    /\ strategies = Ladder
    /\ graph_retriever \in BOOLEAN
    /\ stats = InitialStats
    /\ pc = "start"
    /\ query \in Queries
    /\ processed_query = NoQuery
    /\ CallIdle

Next ==
    \/ Begin
    \/ Dispatch
    \/ ExecuteStrategy
    \/ FinishStrategy
    \/ EntityBegin
    \/ CypherQuery
    \/ AfterCypher
    \/ FullTextQuery
    \/ EntityFinish

Spec == Init /\ [][Next]_vars

\* one call on a query with five search queries, on a retriever constructed
\* without a graph retriever
LongQueryInit ==
    /\ DedupIdle
    /\ strategies = Ladder
    /\ graph_retriever = FALSE
    /\ stats = InitialStats
    /\ pc = "start"
    /\ query = TieTaGongSiZenMeYang
    /\ processed_query = NoQuery
    /\ CallIdle

SpecLongQuery == LongQueryInit /\ [][Next]_vars

-----------------------------------------------------------------------------
(* One call of retrieve_with_fallback from the analyzer's answer on: the    *)
(* processed query ranges over the query types retrieve_with_fallback and   *)
(* _select_start_strategy distinguish                                       *)

\* a string of n characters
Chars(n) == [k \in 1..n |-> "x"]

MkQuery(original, keywords, entities, query_type, confidence) ==
    [ original |-> original, normalized |-> original, keywords |-> keywords,
      entities |-> entities,
      expanded_terms |-> Range(keywords) \cup Range(entities),
      query_type |-> query_type, confidence |-> confidence ]

HandledTypes ==
    { "greeting", "meaningless", "specific_inquiry", "definition", "general" }

AnalyzedQueries ==
    { MkQuery(Hello, <<Hello>>, <<>>, t, c) : t \in HandledTypes, c \in {50, 90} }
    \cup
    { MkQuery(<<"tie", "ta">>, << <<"tie", "ta">> >>, << <<"tie", "ta">> >>, t, 90) :
        t \in HandledTypes }

AnalyzedInit ==
    /\ DedupIdle
    /\ strategies = Ladder
    /\ graph_retriever \in BOOLEAN
    /\ stats = [InitialStats EXCEPT !.total_queries = 1]
    /\ pc = "analyzed"
    /\ processed_query \in AnalyzedQueries
    /\ query = processed_query.original
    /\ CallIdle

AnalyzedNext ==
    \/ Dispatch
    \/ ExecuteStrategy
    \/ FinishStrategy
    \/ EntityBegin
    \/ CypherQuery
    \/ AfterCypher
    \/ FullTextQuery
    \/ EntityFinish

SpecAnalyzed == AnalyzedInit /\ [][AnalyzedNext]_vars

-----------------------------------------------------------------------------
(* _select_start_strategy applied to processed queries around every bound   *)
(* it tests                                                                 *)

SelectTypes ==
    complex_query_types \cup { "greeting", "meaningless", "definition", "general" }

Words(n) == [k \in 1..n |-> <<"k", "w">>]

SelectInputs ==
    { MkQuery(Chars(n), Words(k), Words(e), t, c) :
        n \in {4, 14, 15, 20, 21}, k \in {0, 2, 3}, e \in {0, 1},
        t \in SelectTypes, c \in {50, 60, 61, 80, 81, 90} }

SelectInit ==
    /\ DedupIdle
    /\ strategies = Ladder
    /\ graph_retriever = TRUE
    /\ stats = InitialStats
    /\ pc = "select"
    /\ processed_query \in SelectInputs
    /\ query = processed_query.original
    /\ CallIdle

SelectStart ==
    /\ pc = "select"
    /\ start_strategy_idx' = _select_start_strategy(processed_query)
    /\ pc' = "selected"
    /\ UNCHANGED <<answerVars, sessionVars, decomposeVars, buildVars, executeVars, failures,
                   dedupVars, retrieverVars, query, processed_query, search_queries,
                   idx, qidx, strategy_results, returned, entityVars, historyVars>>

SpecSelect == SelectInit /\ [][SelectStart]_vars

-----------------------------------------------------------------------------
(* One call of _execute_strategy, for every strategy and every answer of    *)
(* the two retrievers                                                       *)

ExecuteInit ==
    /\ DedupIdle
    /\ strategies = Ladder
    /\ graph_retriever \in BOOLEAN
    /\ stats = InitialStats
    /\ pc = "execute"
    /\ query = Hello
    /\ processed_query = NoQuery
    /\ search_queries = <<Hello>>
    /\ start_strategy_idx = 0
    /\ idx \in 0..(Len(Ladder) - 1)
    /\ qidx = 1
    /\ strategy_results = <<>>
    /\ returned = NotReturned
    /\ store = NoStore
    /\ term_idx = 1
    /\ cypher_idx = 1
    /\ entity_results = <<>>
    /\ executed = <<>>
    /\ observed = <<>>
    /\ calls = NoCalls
    /\ failures = {}
    /\ hybrid_answer \in BaseOutcomes
    /\ graph_answer \in GraphOutcomes
    /\ BuildIdle
    /\ SideIdle

ExecuteOnce ==
    /\ pc = "execute"
    /\ strategy_results' =
           _execute_strategy(strategies[idx + 1], hybrid_answer, graph_answer, graph_retriever)
    /\ calls' = [calls EXCEPT
                   !.base = @ + 1,
                   !.graph = @ + (IF graph_retriever /\ ~hybrid_answer.raised THEN 1 ELSE 0)]
    /\ failures' = failures
           \cup (IF hybrid_answer.raised THEN {"base"} ELSE {})
           \cup (IF graph_retriever /\ ~hybrid_answer.raised /\ graph_answer.raised
                 THEN {"graph"} ELSE {})
    /\ pc' = "executed"
    /\ UNCHANGED <<answerVars, sessionVars, decomposeVars, buildVars, executeVars, dedupVars, retrieverVars, query, processed_query,
                   search_queries, start_strategy_idx, idx, qidx, returned, entityVars,
                   executed, observed>>

SpecExecute == ExecuteInit /\ [][ExecuteOnce]_vars

-----------------------------------------------------------------------------
(* AgenticXGraphRAGDemo: one run in mode full, build or qa.  The stores, the *)
(* language model and the file system are outside the program: each step    *)
(* either succeeds or raises.                                               *)

Modes == {"full", "build", "qa"}

\* config.get('dimensions', ...) of the embedding providers
BailianDimensions == 1536
SiliconflowDimensions == 1024
RouterDimensions == {BailianDimensions, SiliconflowDimensions}

\* the dimension written at every MilvusStorage(...) of the demo
MilvusDimension == 1024

MaxDocs == 2

\* self.mode in ["full", "build"], as the argument recreate_if_exists
recreate_if_exists(m) == m \in {"full", "build"}

\* mutant: store_graph never asked to clear
clear_existing_never(m) == FALSE

\* self.mode in ["full", "build"], as the argument clear_existing
clear_existing(m) == m \in {"full", "build"}

MaxRels == 2

\* entities by id, with their names: e1 and e3 share a name
EntityName == [e1 |-> "A", e2 |-> "B", e3 |-> "A"]

Relationship(id, source, relation_type, target) ==
    [ id |-> id, source_entity_id |-> source, relation_type |-> relation_type,
      target_entity_id |-> target ]

RelationshipPool ==
    { Relationship("r1", "e1", "p", "e2"), Relationship("r2", "e3", "p", "e1"),
      Relationship("r3", "e2", "q", "e3") }

RECURSIVE DistinctSeqs(_, _)
DistinctSeqs(S, n) ==
    IF n = 0 THEN {<<>>}
    ELSE LET shorter == DistinctSeqs(S, n - 1)
         IN  shorter \cup
             UNION { { Append(t, e) : e \in S \ Range(t) } :
                     t \in { u \in shorter : Len(u) = n - 1 } }

\* what builder.build_from_texts may return: relationships in dict order; an
\* endpoint of a relationship may be missing from the entities
KnowledgeGraphs ==
    { [entities |-> es, relationships |-> rs] :
        es \in { {"e1", "e2", "e3"}, {"e1", "e3"} },
        rs \in DistinctSeqs(RelationshipPool, MaxRels) }

\* a key-value store that is available and holds nothing yet
EmptyKV == [available |-> TRUE, data |-> <<>>]

\* kv_storage.set(key, value)
KvSet(storage, key, value) ==
    [storage EXCEPT !.data =
        [k \in DOMAIN @ \cup {key} |-> IF k = key THEN value ELSE @[k]]]

EmptySPO == [subject_index |-> <<>>, predicate_index |-> <<>>, object_index |-> <<>>]

\* index[key].append(entry), with the list created when the key is new
AddEntry(index, key, entry) ==
    IF key \in DOMAIN index
    THEN [index EXCEPT ![key] = Append(@, entry)]
    ELSE [k \in DOMAIN index \cup {key} |-> IF k = key THEN <<entry>> ELSE index[k]]

\* the loop over knowledge_graph.relationships.values() of _build_spo_index
RECURSIVE SpoLoop(_, _, _)
SpoLoop(rels, entities, spo) ==
    IF rels = <<>> THEN spo
    ELSE LET relationship == Head(rels)
             found == /\ relationship.source_entity_id \in entities
                      /\ relationship.target_entity_id \in entities
             subject == EntityName[relationship.source_entity_id]
             predicate == relationship.relation_type
             object_name == EntityName[relationship.target_entity_id]
         IN  IF ~found THEN SpoLoop(Tail(rels), entities, spo)
             ELSE SpoLoop(Tail(rels), entities,
                    [ subject_index |->
                          AddEntry(spo.subject_index, subject,
                                   [ predicate |-> predicate, object |-> object_name,
                                     relationship_id |-> relationship.id ]),
                      predicate_index |->
                          AddEntry(spo.predicate_index, predicate,
                                   [ subject |-> subject, object |-> object_name,
                                     relationship_id |-> relationship.id ]),
                      object_index |->
                          AddEntry(spo.object_index, object_name,
                                   [ subject |-> subject, predicate |-> predicate,
                                     relationship_id |-> relationship.id ]) ])

\* mutant: the object index is not filled
spo_index_without_objects(graph) ==
    [SpoLoop(graph.relationships, graph.entities, EmptySPO) EXCEPT !.object_index = <<>>]

spo_index(graph) == SpoLoop(graph.relationships, graph.entities, EmptySPO)

\* json.dumps of a dict with string keys, as the value json.loads gives back
json_dumps(value) == [json |-> value]
json_loads(text) == text.json

Handle(collection, dimension, recreate) ==
    [collection |-> collection, dimension |-> dimension, recreate |-> recreate]

Step(name, status) == [step |-> name, status |-> status]

\* mutant: the SPO index built before the BM25 index
StoreAndIndexOrderSwapped == <<"graph_persist", "vector", "spo", "bm25", "cache">>

\* the order of the five blocks of store_and_index
StoreAndIndexOrder == <<"graph_persist", "vector", "bm25", "spo", "cache">>

\* where the run stands after the block p of store_and_index
AfterBlock(p) ==
    LET k == CHOOSE j \in 1..Len(StoreAndIndexOrder) : StoreAndIndexOrder[j] = p
    IN  IF k < Len(StoreAndIndexOrder) THEN StoreAndIndexOrder[k + 1]
        ELSE IF mode = "full" THEN "qa" ELSE "done"

BuildInit ==
    /\ DedupIdle
    /\ strategies = Ladder
    /\ graph_retriever = TRUE
    /\ stats = InitialStats
    /\ pc = "off"
    /\ query = Hello
    /\ processed_query = NoQuery
    /\ search_queries = <<>>
    /\ start_strategy_idx = 0
    /\ idx = 0
    /\ qidx = 1
    /\ strategy_results = <<>>
    /\ returned = NotReturned
    /\ store = NoStore
    /\ term_idx = 1
    /\ cypher_idx = 1
    /\ entity_results = <<>>
    /\ executed = <<>>
    /\ observed = <<>>
    /\ calls = NoCalls
    /\ failures = {}
    /\ ExecuteIdle
    /\ SideIdle
    /\ mode \in Modes
    /\ bpc = "initialize"
    /\ router_dim \in RouterDimensions
    /\ documents = 0
    /\ handles = <<>>
    /\ steps = <<>>
    /\ store_graph = <<>>
    /\ records = {}
    /\ knowledge_graph = NoGraph
    /\ kv = NoKV

retrievalVars ==
    <<dedupVars, retrieverVars, callVars, entityVars, historyVars, failures, executeVars,
      decomposeVars, answerVars, sessionVars>>

\* initialize_components: the storage manager's vector store, then the two
\* MilvusStorage handles of _initialize_retriever
InitializeComponents ==
    /\ bpc = "initialize"
    /\ \E ok \in BOOLEAN :
         IF ok
         THEN /\ handles' = <<Handle("manager", router_dim, recreate_if_exists(mode)),
                              Handle("documents", MilvusDimension, FALSE),
                              Handle("graph", MilvusDimension, recreate_if_exists(mode))>>
              /\ steps' = Append(steps, Step("initialize", "ok"))
              /\ kv' \in {NoKV, EmptyKV}
              /\ bpc' = IF mode = "qa" THEN "validate_existing" ELSE "validate"
         ELSE /\ handles' = handles
              /\ steps' = Append(steps, Step("initialize", "failed"))
              /\ kv' = kv
              /\ bpc' = "aborted"
    /\ UNCHANGED <<retrievalVars, knowledge_graph, mode, router_dim, documents, store_graph, records>>

\* validate_data_path raises when the directory or its files are missing
ValidateDataPath ==
    /\ bpc = "validate"
    /\ \E ok \in BOOLEAN :
         /\ steps' = Append(steps, Step("validate_data_path", IF ok THEN "ok" ELSE "failed"))
         /\ bpc' = IF ok THEN "load" ELSE "aborted"
    /\ UNCHANGED <<retrievalVars, knowledge_graph, kv, mode, router_dim, documents, handles,
                   store_graph, records>>

\* load_documents skips the files it cannot read
LoadDocuments ==
    /\ bpc = "load"
    /\ \E n \in 0..MaxDocs :
         /\ documents' = n
         /\ steps' = Append(steps, Step("load_documents", "ok"))
    /\ bpc' = "build_graph"
    /\ UNCHANGED <<retrievalVars, knowledge_graph, kv, mode, router_dim, handles, store_graph, records>>

\* build_knowledge_graph: chunking for the graph, then extraction; neither is
\* guarded, so an exception leaves run_build_only / run_demo
BuildKnowledgeGraph ==
    /\ bpc = "build_graph"
    /\ \E chunking \in BOOLEAN, extraction \in BOOLEAN :
         /\ steps' =
               steps \o <<Step("chunking", IF chunking THEN "ok" ELSE "failed")>>
                     \o (IF chunking
                         THEN <<Step("extraction", IF extraction THEN "ok" ELSE "failed")>>
                         ELSE <<>>)
         /\ bpc' = IF chunking /\ extraction THEN StoreAndIndexOrder[1] ELSE "aborted"
         /\ IF chunking /\ extraction
            THEN knowledge_graph' \in KnowledgeGraphs
            ELSE knowledge_graph' = knowledge_graph
    /\ UNCHANGED <<retrievalVars, kv, mode, router_dim, documents, handles, store_graph,
                   records>>

\* store_and_index, block 1: "missing" is get_graph_storage returning nothing,
\* "unreachable" is get_graph_storage raising
PersistGraph ==
    /\ bpc = "graph_persist"
    /\ \E outcome \in {"ok", "failed", "missing", "unreachable"} :
         /\ store_graph' = IF outcome \in {"ok", "failed"}
                           THEN Append(store_graph, clear_existing(mode))
                           ELSE store_graph
         /\ steps' = Append(steps, Step("graph_persist",
                                        CASE outcome = "ok" -> "ok"
                                          [] outcome = "missing" -> "skipped"
                                          [] OTHER -> "failed"))
    /\ bpc' = AfterBlock("graph_persist")
    /\ UNCHANGED <<retrievalVars, knowledge_graph, kv, mode, router_dim, documents, handles, records>>

\* store_and_index, block 2: _build_vector_index calls
\* _build_document_vector_index and then _build_graph_vector_indices inside
\* one try
BuildVectorIndex ==
    /\ bpc = "vector"
    /\ \E connected \in BOOLEAN, added \in BOOLEAN, graph \in {"ok", "failed", "skipped"} :
         LET doc == IF ~connected THEN "failed"
                    ELSE IF documents = 0 THEN "skipped"
                    ELSE IF added THEN "ok" ELSE "failed"
         IN  /\ handles' =
                   IF connected
                   THEN Append(handles,
                               Handle("documents", MilvusDimension, recreate_if_exists(mode)))
                   ELSE handles
             /\ steps' =
                   steps \o <<Step("document_vectors", doc)>>
                         \o (IF doc = "failed" THEN <<>>
                             ELSE <<Step("graph_vectors", graph)>>)
             /\ records' =
                   records
                   \cup (IF doc = "ok"
                         THEN {[collection |-> "documents", dimension |-> router_dim]}
                         ELSE {})
                   \cup (IF doc # "failed" /\ graph = "ok"
                         THEN {[collection |-> "graph", dimension |-> router_dim]}
                         ELSE {})
    /\ bpc' = AfterBlock("vector")
    /\ UNCHANGED <<retrievalVars, knowledge_graph, kv, mode, router_dim, documents, store_graph>>

\* store_and_index, block 3
BuildBM25Index ==
    /\ bpc = "bm25"
    /\ \E ok \in BOOLEAN :
         steps' = Append(steps, Step("bm25", IF documents = 0 THEN "skipped"
                                             ELSE IF ok THEN "ok" ELSE "failed"))
    /\ bpc' = AfterBlock("bm25")
    /\ UNCHANGED <<retrievalVars, knowledge_graph, kv, mode, router_dim, documents, handles,
                   store_graph, records>>

\* store_and_index, block 4
BuildSPOIndex ==
    /\ bpc = "spo"
    /\ IF ~kv.available
       THEN /\ steps' = Append(steps, Step("spo", "skipped"))
            /\ kv' = kv
       ELSE \E ok \in BOOLEAN :
              /\ steps' = Append(steps, Step("spo", IF ok THEN "ok" ELSE "failed"))
              /\ kv' = IF ok
                       THEN KvSet(kv, "spo_index", json_dumps(spo_index(knowledge_graph)))
                       ELSE kv
    /\ bpc' = AfterBlock("spo")
    /\ UNCHANGED <<retrievalVars, knowledge_graph, mode, router_dim, documents, handles,
                   store_graph, records>>

\* store_and_index, block 5
CacheKeyData ==
    /\ bpc = "cache"
    /\ IF ~kv.available
       THEN /\ steps' = Append(steps, Step("stats_cache", "skipped"))
            /\ kv' = kv
       ELSE \E ok \in BOOLEAN :
              /\ steps' = Append(steps, Step("stats_cache", IF ok THEN "ok" ELSE "failed"))
              /\ kv' = IF ok
                       THEN KvSet(kv, "graph_stats", json_dumps(
                                [ entity_count |-> Cardinality(knowledge_graph.entities),
                                  relationship_count |->
                                      Len(knowledge_graph.relationships) ]))
                       ELSE kv
    /\ bpc' = AfterBlock("cache")
    /\ UNCHANGED <<retrievalVars, knowledge_graph, mode, router_dim, documents, handles,
                   store_graph, records>>

\* _validate_existing_data catches what its checks raise
ValidateExistingData ==
    /\ bpc = "validate_existing"
    /\ steps' = Append(steps, Step("validate_existing_data", "ok"))
    /\ bpc' = "qa"
    /\ UNCHANGED <<retrievalVars, knowledge_graph, kv, mode, router_dim, documents, handles,
                   store_graph, records>>

\* interactive_qa until the user leaves
InteractiveQA ==
    /\ bpc = "qa"
    /\ steps' = Append(steps, Step("interactive_qa", "ok"))
    /\ bpc' = "done"
    /\ UNCHANGED <<retrievalVars, knowledge_graph, kv, mode, router_dim, documents, handles,
                   store_graph, records>>

BuildNext ==
    \/ InitializeComponents
    \/ ValidateDataPath
    \/ LoadDocuments
    \/ BuildKnowledgeGraph
    \/ PersistGraph
    \/ BuildVectorIndex
    \/ BuildBM25Index
    \/ BuildSPOIndex
    \/ CacheKeyData
    \/ ValidateExistingData
    \/ InteractiveQA

SpecBuild == BuildInit /\ [][BuildNext]_vars

-----------------------------------------------------------------------------
(* Deduplication applied to bounded lists of results *)

MaxRaw == 5

R(c, s, id) == [content |-> c, score |-> s, chunk_id |-> id]

\* the pool the raw lists are drawn from
RawPool ==
    { R(Txt1, 90, "k1"), R(Txt1, 85, "k5"), R(Txt2, 80, "k2"),
      R(Txt3, 70, "k3"), R(Txt4, 60, "k4"), R(TxtEmpty, 50, NoId) }

RECURSIVE SeqsUpTo(_, _)
SeqsUpTo(S, n) ==
    IF n = 0 THEN {<<>>}
    ELSE LET shorter == SeqsUpTo(S, n - 1)
         IN  shorter \cup { Append(s, e) : s \in { t \in shorter : Len(t) = n - 1 }, e \in S }

NotRun == [raised |-> FALSE, results |-> <<>>]

\* the retriever as constructed, no call under way
RetrieverIdle ==
    /\ strategies = Ladder
    /\ graph_retriever = TRUE
    /\ stats = InitialStats
    /\ pc = "off"
    /\ query = <<>>
    /\ processed_query = NoQuery
    /\ CallIdle

DedupInit ==
    /\ raw \in SeqsUpTo(RawPool, MaxRaw)
    /\ once = NotRun
    /\ twice = NotRun
    /\ dpc = "input"
    /\ RetrieverIdle

DedupOnce ==
    /\ dpc = "input"
    /\ once' = _deduplicate_results(raw)
    /\ dpc' = "once"
    /\ UNCHANGED <<answerVars, sessionVars, decomposeVars, buildVars, executeVars, failures, raw, twice, retrieverVars, callVars, entityVars, historyVars>>

DedupTwice ==
    /\ dpc = "once"
    /\ ~once.raised
    /\ twice' = _deduplicate_results(once.results)
    /\ dpc' = "twice"
    /\ UNCHANGED <<answerVars, sessionVars, decomposeVars, buildVars, executeVars, failures, raw, once, retrieverVars, callVars, entityVars, historyVars>>

DedupNext == DedupOnce \/ DedupTwice

SpecDedup == DedupInit /\ [][DedupNext]_vars

-----------------------------------------------------------------------------
(* Deduplication applied to pairs of results: the texts below reach every   *)
(* branch of _is_content_similar                                            *)

LongA == W("a", 100)
LongAUpper == W("A", 100)
LongB == W("b", 100)

\* Jaccard 4/5 with equal first and last 100 characters
TxtL4 == <<LongA, W("c", 1), W("d", 1), LongB>>
TxtL5 == <<LongA, W("c", 1), W("x", 1), W("d", 1), LongB>>
\* Jaccard 5/6 with equal first and last 100 characters
TxtL6 == <<LongA, W("c", 1), W("d", 1), W("e", 1), LongB>>
TxtL7 == <<LongA, W("c", 1), W("x", 1), W("d", 1), W("e", 1), LongB>>
\* Jaccard 5/6 against TxtL6, but the first 100 characters differ
TxtL8 == <<W("x", 1), LongA, W("c", 1), W("d", 1), W("e", 1), LongB>>
\* TxtL6 with its first word in upper case
TxtU6 == <<LongAUpper, W("c", 1), W("d", 1), W("e", 1), LongB>>
\* 19, 20 and 21 distinct words: Jaccard 19/20 and 20/21, the endings differ
TxtW19 == [k \in 1..19 |-> W("a", k)]
TxtW20 == Append(TxtW19, W("b", 1))
TxtW21 == Append(TxtW20, W("c", 1))
\* the same single word once and twice: Jaccard 1, lengths 1 and 3
TxtS2 == <<W("a", 1), W("a", 1)>>

PairTexts ==
    { TxtL4, TxtL5, TxtL6, TxtL7, TxtL8, TxtU6, TxtW19, TxtW20, TxtW21,
      Txt1, TxtS2, Txt2, TxtEmpty }

PairIds == { <<"k1", "k1">>, <<"k1", "k2">>, <<NoId, NoId>>, <<"k1", NoId>> }

PairInit ==
    /\ \E c1 \in PairTexts, c2 \in PairTexts, ids \in PairIds :
          raw = <<R(c1, 50, ids[1]), R(c2, 40, ids[2])>>
    /\ once = NotRun
    /\ twice = NotRun
    /\ dpc = "input"
    /\ RetrieverIdle

SpecPair == PairInit /\ [][DedupNext]_vars

-----------------------------------------------------------------------------
(* QueryDecomposer.parallel_decompose_and_retrieve and _merge_sub_results.  *)
(* The language model and the retriever are outside the program: the        *)
(* decomposition is any list of sub-questions, each retrieval any outcome.  *)

MaxSubQuestions == 3

\* decomposition_config.get('max_merged_results', 100)
DefaultMaxMergedResults == 100

\* a weighted score is kept as score * confidence * (PriorityScale / priority),
\* an integer that orders like score * confidence * (1.0 / priority)
PriorityScale == 12

MergeStrategies == {"weighted_score", "relevance_ranking"}

Doc(content, score) == [content |-> content, score |-> score]

\* TxtL4 and TxtL5 differ only after their first 100 characters
SubOutcomes ==
    { Raised,
      Returned(<<>>),
      Returned(<<Doc(Txt1, 80), Doc(TxtL4, 70)>>),
      Returned(<<Doc(Txt2, 60), Doc(TxtL5, 90)>>) }

SubQuestion(confidence, priority) == [confidence |-> confidence, priority |-> priority]

\* the sub-questions decompose_query builds: priority = i + 1 by position
Decompositions(n) ==
    { [i \in 1..n |-> SubQuestion(conf[i], i)] : conf \in [1..n -> {50, 100}] }

Pending == [raised |-> FALSE, results |-> <<>>, pending |-> TRUE]

IsPending(r) == "pending" \in DOMAIN r

\* getattr(result, 'content', str(result))[:100]
content_key(result) == TakeRuns(Runs(result.content), 100)

\* the loop over the results of one sub-question
RECURSIVE MergeResults(_, _, _, _)
MergeResults(results, sub_q, acc, ms) ==
    IF results = <<>> THEN acc
    ELSE LET result == Head(results)
             key == content_key(result)
         IN  IF key \in acc.seen_contents
             THEN MergeResults(Tail(results), sub_q, acc, ms)
             ELSE LET weighted ==
                          IF ms = "weighted_score"
                          THEN [result EXCEPT !.score =
                                   @ * sub_q.confidence * (PriorityScale \div sub_q.priority)]
                          ELSE result
                  IN  MergeResults(Tail(results), sub_q,
                                   [ all_results |-> Append(acc.all_results, weighted),
                                     seen_contents |-> acc.seen_contents \cup {key} ],
                                   ms)

\* the loop over zip(sub_results, sub_questions): an exception is skipped
RECURSIVE MergeLoop(_, _, _, _)
MergeLoop(results, questions, acc, ms) ==
    IF results = <<>> \/ questions = <<>> THEN acc
    ELSE IF Head(results).raised
         THEN MergeLoop(Tail(results), Tail(questions), acc, ms)
         ELSE MergeLoop(Tail(results), Tail(questions),
                        MergeResults(Head(results).results, Head(questions), acc, ms), ms)

_merge_sub_results(results, questions, ms, max_results) ==
    LET all_results ==
            MergeLoop(results, questions,
                      [all_results |-> <<>>, seen_contents |-> {}], ms).all_results
        sorted == SortByScore(all_results)
    IN  SubSeq(sorted, 1, IF Len(sorted) < max_results THEN Len(sorted) ELSE max_results)

\* mutant: asyncio.gather called without return_exceptions
return_exceptions_unset == FALSE

\* asyncio.gather(*tasks, return_exceptions=True)
return_exceptions == TRUE

DecomposeInit ==
    /\ DedupIdle
    /\ strategies = Ladder
    /\ graph_retriever = TRUE
    /\ stats = InitialStats
    /\ pc = "off"
    /\ query = Hello
    /\ processed_query = NoQuery
    /\ search_queries = <<>>
    /\ start_strategy_idx = 0
    /\ idx = 0
    /\ qidx = 1
    /\ strategy_results = <<>>
    /\ returned = NotReturned
    /\ store = NoStore
    /\ term_idx = 1
    /\ cypher_idx = 1
    /\ entity_results = <<>>
    /\ executed = <<>>
    /\ observed = <<>>
    /\ calls = NoCalls
    /\ failures = {}
    /\ ExecuteIdle
    /\ BuildIdle
    /\ qd_pc = "decompose"
    /\ parallel_retrieval \in BOOLEAN
    /\ merge_strategy \in MergeStrategies
    /\ max_merged_results \in {2, DefaultMaxMergedResults}
    /\ should_decompose = FALSE
    /\ sub_questions = <<>>
    /\ sub_answers = <<>>
    /\ sub_results = <<>>
    /\ merged = <<>>
    /\ AnswerIdle
    /\ SessionIdle

decomposeRest == <<dedupVars, retrieverVars, callVars, entityVars, historyVars, failures,
                   executeVars, buildVars, answerVars, sessionVars>>

\* decompose_query: no decomposition (or the fallback) gives the query itself
DecomposeQuery ==
    /\ qd_pc = "decompose"
    /\ \/ /\ should_decompose' = FALSE
          /\ sub_questions' = <<SubQuestion(100, 1)>>
          /\ sub_results' = <<>>
          /\ qd_pc' = "direct"
       \/ \E n \in 0..MaxSubQuestions : \E questions \in Decompositions(n) :
            /\ should_decompose' = TRUE
            /\ sub_questions' = questions
            /\ sub_results' = IF parallel_retrieval THEN [i \in 1..n |-> Pending] ELSE <<>>
            /\ qd_pc' = IF n = 0 THEN "merge"
                        ELSE IF parallel_retrieval THEN "gather" ELSE "sequential"
    /\ sub_answers' = [i \in 1..Len(sub_questions') |-> Pending]
    /\ UNCHANGED <<decomposeRest, parallel_retrieval, merge_strategy, max_merged_results,
                   merged>>

\* the direct retrieval of lines 392-399 is not guarded
RetrieveDirect ==
    /\ qd_pc = "direct"
    /\ \E outcome \in SubOutcomes :
         /\ sub_answers' = <<outcome>>
         /\ IF outcome.raised
            THEN /\ qd_pc' = "raised"
                 /\ merged' = merged
            ELSE /\ qd_pc' = "done"
                 /\ merged' = outcome.results
    /\ UNCHANGED <<decomposeRest, parallel_retrieval, merge_strategy, max_merged_results,
                   should_decompose, sub_questions, sub_results>>

\* one of the gathered tasks ends, in any order; gather returns after the last
TaskCompletes ==
    /\ qd_pc = "gather"
    /\ \E i \in 1..Len(sub_results), outcome \in SubOutcomes :
         /\ IsPending(sub_results[i])
         /\ sub_answers' = [sub_answers EXCEPT ![i] = outcome]
         /\ sub_results' = [sub_results EXCEPT ![i] = outcome]
         /\ qd_pc' = IF outcome.raised /\ ~return_exceptions THEN "raised"
                     ELSE IF \A j \in 1..Len(sub_results) : j = i \/ ~IsPending(sub_results[j])
                     THEN "merge"
                     ELSE "gather"
    /\ UNCHANGED <<decomposeRest, parallel_retrieval, merge_strategy, max_merged_results,
                   should_decompose, sub_questions, merged>>

\* one pass of the sequential loop: an exception becomes the empty list
RetrieveSequential ==
    /\ qd_pc = "sequential"
    /\ \E outcome \in SubOutcomes :
         /\ sub_answers' = [sub_answers EXCEPT ![Len(sub_results) + 1] = outcome]
         /\ sub_results' = Append(sub_results,
                                  IF outcome.raised THEN Returned(<<>>) ELSE outcome)
    /\ qd_pc' = IF Len(sub_results) + 1 = Len(sub_questions) THEN "merge" ELSE "sequential"
    /\ UNCHANGED <<decomposeRest, parallel_retrieval, merge_strategy, max_merged_results,
                   should_decompose, sub_questions, merged>>

MergeSubResults ==
    /\ qd_pc = "merge"
    /\ merged' = _merge_sub_results(sub_results, sub_questions, merge_strategy,
                                    max_merged_results)
    /\ qd_pc' = "done"
    /\ UNCHANGED <<decomposeRest, parallel_retrieval, merge_strategy, max_merged_results,
                   should_decompose, sub_questions, sub_answers, sub_results>>

DecomposeNext ==
    \/ DecomposeQuery
    \/ RetrieveDirect
    \/ TaskCompletes
    \/ RetrieveSequential
    \/ MergeSubResults

SpecDecompose == DecomposeInit /\ [][DecomposeNext]_vars

-----------------------------------------------------------------------------
(* _generate_answer: selection, assembly and truncation of the context *)

MaxItems == 3

DefaultTopK == 10
DefaultMaxContextLength == 4000
max_content_per_item == 500
ShortContext == 50
RebuildItems == 3
RebuildContentLength == 300
RawContentLength == 500
StrLength == 200

\* a score that is None
NoneScore == 0 - 1

\* result.metadata; an empty dict is falsy
Meta(type, search_source, document_title) ==
    [empty |-> FALSE, type |-> type, search_source |-> search_source,
     document_title |-> document_title]
NoMetadata == [empty |-> TRUE, type |-> "", search_source |-> "", document_title |-> <<>>]

\* one retrieval result; shape "dict" is a plain dict with the same keys
Item(shape, content, score, metadata) ==
    [shape |-> shape, content |-> content, score |-> score, metadata |-> metadata]

EntityItem == Item("object", <<W("a", 1)>>, 90, Meta("entity", "direct_entity", <<>>))
DocItem == Item("object", <<W("a", 600)>>, 80, Meta("document_chunk", "vector", <<W("t", 5)>>))
GraphItem == Item("object", <<W("a", 20)>>, 70, Meta("relationship", "graph", <<>>))
PlainItem == Item("object", <<W("a", 1), W(" ", 299)>>, 60, NoMetadata)
BlankItem == Item("object", <<W(" ", 300)>>, 50, Meta("", "", <<>>))
NoneScoreItem == Item("object", <<W("a", 1)>>, NoneScore, NoMetadata)
DictItem == Item("dict", <<W("a", 1)>>, 40, NoMetadata)

ItemPool == {EntityItem, DocItem, GraphItem, PlainItem, BlankItem, NoneScoreItem, DictItem}

\* the objects of a list are told apart by their position in it (id(r))
WithIds(s) ==
    [k \in 1..Len(s) |->
        [id |-> k, shape |-> s[k].shape, content |-> s[k].content, score |-> s[k].score,
         metadata |-> s[k].metadata]]

\* enough long documents to pass the default max_context_length
LongList == [k \in 1..9 |-> DocItem]

\* more results of one type than top_k has room for
MixedList == <<GraphItem, GraphItem, GraphItem, PlainItem>>

AnswerInputs ==
    { WithIds(s) :
        s \in UNION { [1..n -> ItemPool] : n \in 0..MaxItems } \cup {LongList, MixedList} }

TopKs == {1, 3, DefaultTopK}
ContextLengths == {600, DefaultMaxContextLength}

\* the lengths of the words put around the contents
WordLen ==
    [entity |-> 6, direct_entity |-> 13, document_chunk |-> 14, vector |-> 6,
     relationship |-> 12, graph |-> 5]
Word(s) == <<W(s, WordLen[s])>>

\* fixed pieces of text, by their number of characters
Newline == <<W("\n", 1)>>
Bullet == <<W("bullet", 2)>>                  \* "• "
EntityHeader == <<W("=== entity ===", 12)>>    \* "=== 实体信息 ==="
DocumentHeader == <<W("=== document ===", 12)>>  \* "=== 文档内容 ==="
GraphHeader == <<W("=== graph ===", 14)>>      \* "=== 知识图谱信息 ==="
OtherHeader == <<W("=== other ===", 14)>>      \* "=== 其他相关信息 ==="
RawHeader == <<W("=== results ===", 12)>>      \* "=== 检索结果 ==="
RebuildHeader == <<W("=== found ===", 14)>> \o Newline   \* "=== 检索到的信息 ===\n"
Marker == <<W("\n", 2), W("[truncated]", 14)>>  \* "\n\n[注：内容因长度限制被截断]"
Ellipsis == <<W(".", 3)>>
ErrorTag == <<W(" [error]", 7)>>               \* " [处理出错]"
RelevanceTag(score) == <<W("[relevance: ", 6), W("0", 5), W("]", 1)>>  \* f"[相关度: {score:.3f}]"
RawLabel(i) == <<W("bullet", 2), W("result", 2), W("i", 1), W(": ", 2)>>  \* f"• 结果{i}: "
RebuildLabel(i) == <<W("result", 2), W("i", 1), W(": ", 2)>>          \* f"结果{i}: "
Space == <<W(" ", 1)>>
Bracketed(text) == <<W("[", 1)>> \o text \o <<W("]", 1)>>

\* str(result): the class name around the fields
Str(result) == <<W("RetrievalResult(", 16)>> \o result.content \o <<W(")", 1)>>

\* str.strip() on a run-length text
RECURSIVE LStripRuns(_)
LStripRuns(rs) == IF rs # <<>> /\ Head(rs).ch \in Blanks THEN LStripRuns(Tail(rs)) ELSE rs
StripRuns(rs) == Reverse(LStripRuns(Reverse(LStripRuns(rs))))

\* the tests of lines 2131-2143
IsEntityResult(m) == m.type = "entity" \/ m.search_source = "direct_entity"
IsDocumentResult(m) ==
    \/ m.type \in {"document_chunk", "bm25_chunk", "vector_chunk"}
    \/ m.document_title # <<>>
    \/ m.search_source \in {"vector", "bm25", "hybrid"}
IsGraphResult(m) ==
    \/ m.search_source \in {"graph_vector", "graph", "full_text"}
    \/ m.type \in {"relationship", "triple", "community"}

\* the type of a result (lines 2071-2094)
TypeOf(r) ==
    IF r.metadata.empty THEN "other"
    ELSE IF IsEntityResult(r.metadata) THEN "entity"
    ELSE IF IsGraphResult(r.metadata) THEN "graph"
    ELSE IF IsDocumentResult(r.metadata) THEN "document"
    ELSE "other"

max_per_type(top_k) == Max(2, top_k \div 4)

NoneSelected ==
    [context_results |-> <<>>, entity_selected |-> 0, doc_selected |-> 0,
     graph_selected |-> 0, other_selected |-> 0]

\* one iteration of the loop of lines 2117-2149
QuotaStep(st, result, top_k) ==
    LET cap == max_per_type(top_k)
        m == result.metadata
        picked == Append(st.context_results, result)
    IN  IF m.empty
        THEN IF st.other_selected < cap
             THEN [st EXCEPT !.context_results = picked, !.other_selected = @ + 1]
             ELSE st
        ELSE IF IsEntityResult(m) /\ st.entity_selected < cap
        THEN [st EXCEPT !.context_results = picked, !.entity_selected = @ + 1]
        ELSE IF IsDocumentResult(m) /\ st.doc_selected < cap
        THEN [st EXCEPT !.context_results = picked, !.doc_selected = @ + 1]
        ELSE IF IsGraphResult(m) /\ st.graph_selected < cap
        THEN [st EXCEPT !.context_results = picked, !.graph_selected = @ + 1]
        ELSE IF st.other_selected < cap
        THEN [st EXCEPT !.context_results = picked, !.other_selected = @ + 1]
        ELSE st

RECURSIVE QuotaLoop(_, _, _)
QuotaLoop(st, sorted, top_k) ==
    IF sorted = <<>> \/ Len(st.context_results) >= top_k THEN st
    ELSE QuotaLoop(QuotaStep(st, Head(sorted), top_k), Tail(sorted), top_k)

\* the loop of lines 2155-2159
RECURSIVE FillLoop(_, _, _, _)
FillLoop(selected, selected_ids, sorted, top_k) ==
    IF sorted = <<>> \/ Len(selected) >= top_k THEN selected
    ELSE IF Head(sorted).id \notin selected_ids
         THEN FillLoop(Append(selected, Head(sorted)), selected_ids, Tail(sorted), top_k)
         ELSE FillLoop(selected, selected_ids, Tail(sorted), top_k)

\* lines 2107-2164: the quota pass, the fill pass and the last resort
SelectContext(all_sorted_results, top_k) ==
    LET quota == QuotaLoop(NoneSelected, all_sorted_results, top_k).context_results
        filled == IF Len(quota) < top_k
                  THEN FillLoop(quota, { quota[k].id : k \in 1..Len(quota) },
                                all_sorted_results, top_k)
                  ELSE quota
    IN  [quota |-> quota,
         context_results |-> IF filled = <<>> /\ all_sorted_results # <<>>
                             THEN Take(all_sorted_results, top_k)
                             ELSE filled]

\* one iteration of the loop of lines 2178-2248: the list the line goes to
ItemLine(result) ==
    LET stripped == StripRuns(result.content)
        shown == IF RunsLen(stripped) > max_content_per_item
                 THEN TakeRuns(stripped, max_content_per_item) \o Ellipsis
                 ELSE stripped
        m == result.metadata
        source_info == IF m.search_source # "" THEN Bracketed(Word(m.search_source))
                       ELSE IF m.type # "" THEN Bracketed(Word(m.type))
                       ELSE <<>>
        line(info) == Bullet \o shown \o Space \o info \o Space \o RelevanceTag(result.score)
    IN  IF stripped = <<>> THEN [list |-> "skipped", line |-> <<>>]
        ELSE IF result.score = NoneScore
        THEN [list |-> "other", line |-> Bullet \o TakeRuns(Str(result), StrLength) \o ErrorTag]
        ELSE IF IsEntityResult(m) THEN [list |-> "entity", line |-> line(source_info)]
        ELSE IF IsDocumentResult(m)
        THEN [list |-> "document",
              line |-> line(IF m.document_title # <<>> THEN Bracketed(m.document_title)
                            ELSE source_info)]
        ELSE IF IsGraphResult(m) THEN [list |-> "graph", line |-> line(source_info)]
        ELSE [list |-> "other", line |-> line(source_info)]

\* entity_info, document_info, graph_info or other_info
RECURSIVE InfoOf(_, _)
InfoOf(selected, list) ==
    IF selected = <<>> THEN <<>>
    ELSE LET it == ItemLine(Head(selected))
         IN  (IF it.list = list THEN <<it.line>> ELSE <<>>) \o InfoOf(Tail(selected), list)

\* lines 2280-2286
RawLine(result, i) ==
    IF result.score = NoneScore
    THEN RawLabel(i) \o TakeRuns(Str(result), StrLength)
    ELSE RawLabel(i) \o TakeRuns(result.content, RawContentLength) \o Space
         \o RelevanceTag(result.score)

\* one header and its lines (lines 2251-2274)
Section(sections, header, info) ==
    IF info = <<>> THEN sections
    ELSE sections \o <<IF sections # <<>> THEN Newline \o header ELSE header>> \o info

\* "\n".join(context_sections)
RECURSIVE JoinLines(_)
JoinLines(lines) ==
    IF lines = <<>> THEN <<>>
    ELSE IF Len(lines) = 1 THEN Head(lines)
    ELSE Head(lines) \o Newline \o JoinLines(Tail(lines))

\* lines 2167-2288
AssembleContext(selected) ==
    LET entity_info == InfoOf(selected, "entity")
        document_info == InfoOf(selected, "document")
        graph_info == InfoOf(selected, "graph")
        other_info == InfoOf(selected, "other")
        classified ==
            Section(Section(Section(Section(<<>>, EntityHeader, entity_info),
                                    DocumentHeader, document_info),
                            GraphHeader, graph_info),
                    OtherHeader, other_info)
        context_sections ==
            IF classified = <<>>
            THEN <<RawHeader>> \o [k \in 1..Len(selected) |-> RawLine(selected[k], k)]
            ELSE classified
    IN  JoinLines(context_sections)

\* len(context)
RECURSIVE TextLen(_)
TextLen(text) ==
    IF text = <<>> THEN 0
    ELSE IF Len(text) = 1 THEN text[1].n
    ELSE LET half == Len(text) \div 2
         IN  TextLen(SubSeq(text, 1, half)) + TextLen(SubSeq(text, half + 1, Len(text)))

\* context[:k]
TextTake(text, k) ==
    LET whole == CHOOSE i \in 0..Len(text) :
                     /\ TextLen(SubSeq(text, 1, i)) <= k
                     /\ i < Len(text) => TextLen(SubSeq(text, 1, i + 1)) > k
        rest == k - TextLen(SubSeq(text, 1, whole))
    IN  IF whole = Len(text) \/ rest = 0 THEN SubSeq(text, 1, whole)
        ELSE Append(SubSeq(text, 1, whole), W(text[whole + 1].ch, rest))

\* lines 2291-2293
Truncate(text, limit) ==
    IF TextLen(text) > limit THEN TextTake(text, limit) \o Marker ELSE text

\* lines 2301-2307
RECURSIVE RebuildLines(_, _)
RebuildLines(selected, i) ==
    IF selected = <<>> THEN <<>>
    ELSE RebuildLabel(i) \o TakeRuns(Head(selected).content, RebuildContentLength) \o Newline
         \o RebuildLines(Tail(selected), i + 1)

\* lines 2297-2307
ShortContextRebuilt(text, selected) ==
    IF TextLen(text) < ShortContext /\ selected # <<>>
    THEN RebuildHeader \o RebuildLines(Take(selected, RebuildItems), 1)
    ELSE text

\* lines 2071-2104: r.metadata of a dict raises, and so does the comparison of
\* None with another score
ClassifyRaises(input) ==
    \/ \E k \in 1..Len(input) : input[k].shape = "dict"
    \/ Len(input) >= 2 /\ \E k \in 1..Len(input) : input[k].score = NoneScore

\* the prompt is built and the model called: it answers or raises
LLMOutcomes == {"answered", "failed"}

RetrieverOff ==
    /\ DedupIdle
    /\ strategies = Ladder
    /\ graph_retriever = TRUE
    /\ stats = InitialStats
    /\ pc = "off"
    /\ query = Hello
    /\ processed_query = NoQuery
    /\ search_queries = <<>>
    /\ start_strategy_idx = 0
    /\ idx = 0
    /\ qidx = 1
    /\ strategy_results = <<>>
    /\ returned = NotReturned
    /\ store = NoStore
    /\ term_idx = 1
    /\ cypher_idx = 1
    /\ entity_results = <<>>
    /\ executed = <<>>
    /\ observed = <<>>
    /\ calls = NoCalls
    /\ failures = {}

AnswerInit ==
    /\ RetrieverOff
    /\ ExecuteIdle
    /\ BuildIdle
    /\ DecomposeIdle
    /\ SessionIdle
    /\ ga_pc = "call"
    /\ ga_results \in AnswerInputs
    /\ context_top_k \in TopKs
    /\ max_context_length \in ContextLengths
    /\ quota_results = <<>>
    /\ context_results = <<>>
    /\ assembled = <<>>
    /\ context = <<>>
    /\ ga_outcome = "none"

answerRest == <<dedupVars, retrieverVars, callVars, entityVars, historyVars, failures,
                executeVars, buildVars, decomposeVars, sessionVars>>

\* _generate_answer(query, results): "empty" is the warning and return of lines
\* 2051-2054, "abandoned" an exception before the context was built and "failed"
\* one after it, both caught at line 2374
GenerateAnswer ==
    /\ ga_pc = "call"
    /\ ga_pc' = "done"
    /\ IF ga_results = <<>>
       THEN /\ ga_outcome' = "empty"
            /\ UNCHANGED <<quota_results, context_results, assembled, context>>
       ELSE IF ClassifyRaises(ga_results)
       THEN /\ ga_outcome' = "abandoned"
            /\ UNCHANGED <<quota_results, context_results, assembled, context>>
       ELSE LET all_sorted_results == SortByScore(ga_results)
                selection == SelectContext(all_sorted_results, context_top_k)
                joined == AssembleContext(selection.context_results)
            IN  /\ quota_results' = selection.quota
                /\ context_results' = selection.context_results
                /\ assembled' = joined
                /\ context' = ShortContextRebuilt(Truncate(joined, max_context_length),
                                                  selection.context_results)
                /\ ga_outcome' \in LLMOutcomes
    /\ UNCHANGED <<ga_results, context_top_k, max_context_length, answerRest>>

SpecAnswer == AnswerInit /\ [][GenerateAnswer]_vars

-----------------------------------------------------------------------------
(* interactive_qa and interactive_mode: the session loops *)

MaxTurns == 3

\* what the prompt can read
TypedInputs == {"", "quit", " Exit ", "tuichu", "/exit", "/help", "/clear", "/mode", "/data",
                "/rebuild", "/Unknown", "question"}

\* str.strip()
Stripped(text) == IF text = " Exit " THEN "Exit" ELSE text

\* str.lower()
Lowered(text) ==
    IF text = "Exit" THEN "exit" ELSE IF text = "/Unknown" THEN "/unknown" ELSE text

\* what a call made by the loop can do: return, raise an Exception, or be
\* interrupted from the keyboard
CallOutcomes == {"returned", "raised", "KeyboardInterrupt"}

\* mutant: no handler for Exception around the body of the loop
except_Exception_missing == FALSE

\* except Exception as e: the error is printed and the loop goes on
except_Exception == TRUE

Turn(text, did) == [input |-> text, did |-> did]

SessionInit ==
    /\ RetrieverOff
    /\ ExecuteIdle
    /\ BuildIdle
    /\ DecomposeIdle
    /\ AnswerIdle
    /\ session \in {"interactive_qa", "interactive_mode"}
    /\ spc = "prompt"
    /\ demo_instance = FALSE
    /\ user_input = "none"
    /\ transcript = <<>>
    /\ ended_by = "none"

sessionRest == <<dedupVars, retrieverVars, callVars, entityVars, historyVars, failures,
                 executeVars, buildVars, decomposeVars, answerVars>>

\* the iteration is over and the loop asks again
Again(text, did) ==
    /\ spc' = "prompt"
    /\ transcript' = Append(transcript, Turn(text, did))
    /\ UNCHANGED ended_by

\* break, or an exception that leaves the loop
Ended(text, did, by) ==
    /\ spc' = "ended"
    /\ transcript' = Append(transcript, Turn(text, did))
    /\ ended_by' = by

\* an Exception raised in the body of the loop
Failed(text, did) ==
    IF except_Exception THEN Again(text, did) ELSE Ended(text, did, "error")

\* interactive_qa, lines 1718-1730 and the handlers of lines 1735-1740: the
\* prompt returns text or raises
QAPrompt ==
    /\ session = "interactive_qa"
    /\ spc = "prompt"
    /\ Len(transcript) < MaxTurns
    /\ \/ \E text \in TypedInputs :
            LET query_text == Stripped(text)
            IN  /\ user_input' = query_text
                /\ IF Lowered(query_text) \in {"quit", "exit", "tuichu"}
                   THEN Ended(query_text, "quit", "quit")
                   ELSE IF query_text = ""
                   THEN Again(query_text, "skipped")
                   ELSE /\ spc' = "processing"
                        /\ UNCHANGED <<transcript, ended_by>>
       \/ /\ user_input' = "none"
          /\ \/ Ended("none", "interrupt", "interrupt")
             \/ Failed("none", "input_error")
    /\ UNCHANGED <<session, demo_instance, sessionRest>>

\* interactive_qa, line 1733 and the handlers of lines 1735-1740
QAProcess ==
    /\ session = "interactive_qa"
    /\ spc = "processing"
    /\ \E outcome \in CallOutcomes :
          IF outcome = "returned" THEN Again(user_input, "answered")
          ELSE IF outcome = "raised" THEN Failed(user_input, "query_error")
          ELSE Ended(user_input, "interrupt", "interrupt")
    /\ UNCHANGED <<session, demo_instance, user_input, sessionRest>>

\* interactive_mode, lines 2569-2683 and the handlers of lines 2693-2698: the
\* prompt, and the commands with what they call
ModePrompt ==
    /\ session = "interactive_mode"
    /\ spc = "prompt"
    /\ Len(transcript) < MaxTurns
    /\ \/ \E text \in TypedInputs, outcome \in CallOutcomes :
            LET typed == Stripped(text)
                command == Lowered(typed)
            IN  /\ user_input' = typed
                /\ IF typed = ""
                   THEN Again(typed, "skipped") /\ UNCHANGED demo_instance
                   ELSE IF command = "/exit"
                   THEN Ended(typed, "quit", "quit") /\ UNCHANGED demo_instance
                   ELSE IF command \in {"/help", "/clear", "/data"}
                   THEN /\ UNCHANGED demo_instance
                        /\ IF outcome = "returned" THEN Again(typed, "command")
                           ELSE IF outcome = "raised" THEN Failed(typed, "command_error")
                           ELSE Ended(typed, "interrupt", "interrupt")
                   ELSE IF command = "/mode"
                   THEN IF outcome = "returned"
                        THEN Again(typed, "command") /\ demo_instance' = TRUE
                        ELSE IF outcome = "raised"
                        THEN Again(typed, "command_error") /\ demo_instance' = FALSE
                        ELSE Ended(typed, "interrupt", "interrupt") /\ UNCHANGED demo_instance
                   ELSE IF command = "/rebuild"
                   THEN \E rebuild \in BOOLEAN :
                        IF ~rebuild
                        THEN Again(typed, "command") /\ UNCHANGED demo_instance
                        ELSE IF outcome = "returned"
                        THEN Again(typed, "command") /\ demo_instance' = FALSE
                        ELSE IF outcome = "raised"
                        THEN Again(typed, "command_error") /\ UNCHANGED demo_instance
                        ELSE Ended(typed, "interrupt", "interrupt") /\ UNCHANGED demo_instance
                   ELSE IF typed \in {"/Unknown"}
                   THEN Again(typed, "unknown_command") /\ UNCHANGED demo_instance
                   ELSE IF ~demo_instance
                   THEN Again(typed, "not_initialized") /\ UNCHANGED demo_instance
                   ELSE /\ spc' = "processing"
                        /\ UNCHANGED <<transcript, ended_by, demo_instance>>
       \/ /\ user_input' = "none"
          /\ UNCHANGED demo_instance
          /\ \/ Ended("none", "interrupt", "interrupt")
             \/ Failed("none", "input_error")
    /\ UNCHANGED <<session, sessionRest>>

\* interactive_mode, lines 2686-2691 and the handlers of lines 2693-2698
ModeProcess ==
    /\ session = "interactive_mode"
    /\ spc = "processing"
    /\ \E outcome \in CallOutcomes :
          IF outcome = "returned" THEN Again(user_input, "answered")
          ELSE IF outcome = "raised" THEN Failed(user_input, "query_error")
          ELSE Ended(user_input, "interrupt", "interrupt")
    /\ UNCHANGED <<session, demo_instance, user_input, sessionRest>>

SessionNext == QAPrompt \/ QAProcess \/ ModePrompt \/ ModeProcess

SpecSession == SessionInit /\ [][SessionNext]_vars

-----------------------------------------------------------------------------
(* Properties of retrieve_with_fallback *)

StrategyUsed ==
    IF "strategy_used" \in DOMAIN returned.report THEN returned.report.strategy_used
    ELSE "absent"

\* every strategy from the start index to the last was run and came out empty
LadderExhausted ==
    /\ Len(observed) = Len(strategies) - start_strategy_idx
    /\ \A k \in 1..Len(observed) :
          observed[k] = [idx |-> start_strategy_idx + k - 1, n |-> 0]

\* C1: the strategies run in ladder order from the start index; a strategy
\* starts only after the one before it was seen to deduplicate to nothing; the
\* first strategy with a non-empty list is the last one run and is reported
\* as strategy_used
C1_LadderSequential ==
    /\ \A k \in 1..Len(executed) : executed[k] = start_strategy_idx + k - 1
    /\ \A k \in 2..Len(executed) :
          /\ Len(observed) >= k - 1
          /\ observed[k - 1] = [idx |-> executed[k - 1], n |-> 0]
    /\ \A k \in 1..Len(observed) :
          observed[k].n > 0 =>
              /\ k = Len(observed)
              /\ Len(executed) = k
              /\ pc = "done"
              /\ StrategyUsed = strategies[observed[k].idx + 1].name

\* started at strict, two strategies came out empty, the third was locked in
C1_Witness ==
    /\ pc = "done"
    /\ start_strategy_idx = 0
    /\ Len(executed) = 3
    /\ observed[3].n > 0
    /\ StrategyUsed = "relaxed"

NameOf(start) == strategies[start + 1].name

\* the rules of the claim, in order
StartRules(pq) ==
    << [when |-> pq.query_type \in { "specific_inquiry", "commitment_inquiry",
                                     "enumeration", "classification", "service_inquiry" },
        start |-> "relaxed"],
       [when |-> Len(pq.original) > 20, start |-> "relaxed"],
       [when |-> Len(pq.keywords) >= 3, start |-> "standard"],
       [when |-> pq.confidence > 80 /\ pq.entities # <<>> /\ Len(pq.original) < 15,
        start |-> "strict"],
       [when |-> pq.confidence > 60, start |-> "standard"],
       [when |-> TRUE, start |-> "relaxed"] >>

FirstMatch(rules) ==
    rules[CHOOSE k \in 1..Len(rules) : rules[k].when /\ \A j \in 1..(k - 1) : ~rules[j].when].start

\* C2: the start index names the strategy of the first rule that matches
C2_StartByFirstRule ==
    pc = "selected" => NameOf(start_strategy_idx) = FirstMatch(StartRules(processed_query))

\* the strict rule decided: a short, confident query with an entity
C2_Witness ==
    /\ pc = "selected"
    /\ NameOf(start_strategy_idx) = "strict"
    /\ Len(processed_query.original) = 14

Monotone(ladder) ==
    \A k \in 1..(Len(ladder) - 1) :
        /\ ladder[k].vector_threshold >= ladder[k + 1].vector_threshold
        /\ ladder[k].graph_threshold >= ladder[k + 1].graph_threshold
        /\ ladder[k].bm25_min_score >= ladder[k + 1].bm25_min_score
        /\ ladder[k].top_k <= ladder[k + 1].top_k

\* C3: the ladder is strict, standard, relaxed, fuzzy, aggressive, it is
\* monotone, and it is in every state the ladder the constructor built
C3_LadderMonotone ==
    /\ [k \in 1..Len(strategies) |-> strategies[k].name] =
           <<"strict", "standard", "relaxed", "fuzzy", "aggressive">>
    /\ Monotone(strategies)
    /\ strategies = Ladder

\* a call that walked the whole ladder and went on to the entity search
C3_Witness ==
    /\ pc = "done"
    /\ Len(executed) = 5
    /\ calls.cypher > 0

\* C4: on a greeting or meaningless query no retriever and no store is ever
\* called, and the call returns exactly one synthesized result
C4_HandlersTouchNoIndex ==
    processed_query.query_type \in {"greeting", "meaningless"} =>
        /\ calls = NoCalls
        /\ pc \in {"analyzed", "done"}
        /\ pc = "done" =>
              /\ Len(returned.results) = 1
              /\ returned.results[1].search_source = "system"
              /\ returned.results[1].type =
                     (IF processed_query.query_type = "greeting"
                      THEN "greeting_response" ELSE "help_response")

C4_Witness ==
    /\ pc = "done"
    /\ processed_query.query_type = "meaningless"
    /\ Len(returned.results) = 1
    /\ StrategyUsed = "help_handler"

\* C5 as stated: the query "hello" is typed greeting and answered by the
\* greeting handler with one result and no call to a retriever or store
C5_HelloIsGreeted ==
    (query = Hello /\ pc = "done") =>
        /\ processed_query.query_type = "greeting"
        /\ Len(returned.results) = 1
        /\ StrategyUsed = "greeting_handler"
        /\ calls = NoCalls

\* the source a result came from, as the claim separates them
ProducedBy(r) == IF r.search_source \in {"vector", "graph"} THEN r.search_source ELSE "bm25"

ThresholdOf(strategy, source) ==
    IF source = "vector" THEN strategy.vector_threshold
    ELSE IF source = "graph" THEN strategy.graph_threshold
    ELSE strategy.bm25_min_score

\* C6 as stated: every result kept by _execute_strategy carries the tag of
\* the source that produced it and meets the threshold of that source
C6_PerSourceThreshold ==
    pc = "ladder" =>
        \A k \in 1..Len(strategy_results) :
            LET r == strategy_results[k]
            IN  /\ r.source_type = (IF ProducedBy(r) = "bm25" THEN "unknown" ELSE ProducedBy(r))
                /\ r.score >= ThresholdOf(strategies[idx + 1], ProducedBy(r))

InEntitySearch == pc \in {"entity", "cypher", "fulltext", "entity_finish"}

StorePresent == store.manager /\ store.graph

DirectFound == { k \in 1..Len(entity_results) : entity_results[k].search_source = "direct_entity" }

\* C10: the entity search, the full-text scan and the advisory run only after
\* every strategy from the start index on came out empty; the entity search
\* puts four Cypher queries per term; the scan runs only once those are
\* through and found nothing; the advisory only when the scan found nothing too
C10_FallbackOrder ==
    /\ (InEntitySearch \/ calls.cypher > 0 \/ calls.fulltext > 0 \/ calls.advisory > 0)
          => LadderExhausted
    /\ pc = "cypher" =>
          calls.cypher = 4 * (term_idx - 1) + (cypher_idx - 1)
    /\ (pc \in {"fulltext", "entity_finish"} \/ calls.fulltext > 0 \/ calls.advisory > 0) =>
          calls.cypher = 4 * Len(EntityTerms)
    /\ (pc = "fulltext" \/ calls.fulltext > 0) => DirectFound = {}
    /\ calls.advisory > 0 =>
          /\ calls.advisory = 1
          /\ entity_results = <<>>
    /\ (pc = "done" /\ LadderExhausted /\ StorePresent) =>
          /\ calls.cypher = 4 * Len(EntityTerms)
          /\ DirectFound = {} => (entity_results = <<>> <=> calls.advisory = 1)

\* ladder exhausted, four Cypher queries for each of several terms and the
\* scan found nothing, the advisory was produced
C10_Witness ==
    /\ pc = "done"
    /\ LadderExhausted
    /\ calls.advisory = 1
    /\ Len(EntityTerms) >= 3
    /\ calls.cypher = 4 * Len(EntityTerms)
    /\ calls.fulltext > 0

\* C11 as stated: when the ladder is exhausted and neither the entity search
\* nor the full-text scan found a row, the call returns exactly one advisory
\* result and its report has success = false, with strategy_used entity_search
\* or a fallback name
C11_AdvisoryReportsFailure ==
    (pc = "done" /\ calls.advisory = 1) =>
        /\ Len(returned.results) = 1
        /\ returned.results[1].search_source = "system_fallback"
        /\ StrategyUsed \in {"entity_search", "fallback"}
        /\ returned.report.success = FALSE

\* number of search queries executed so far in the strategy under way
ExecutedInStrategy == qidx - 1

\* C12 as stated: at most the first three search queries are executed in a
\* strategy, however many the analyzer generated
C12_AtMostThreePerStrategy ==
    pc = "ladder" => ExecutedInStrategy <= 3

ReportFields ==
    { "original_query", "processed_query", "search_queries", "strategy_used",
      "total_results", "success" }

\* C15 as stated: on every path the report returned has all six fields
C15_SixFieldsAlways ==
    pc = "done" => ReportFields \subseteq DOMAIN returned.report

IsErrorReport == returned.report = ErrorReport

\* C13 as stated: whenever a collaborator raised during the call, the call
\* returns an empty list and a report with success = false and an error field
C13_AnyFailureGivesErrorReport ==
    (pc = "done" /\ failures # {}) =>
        /\ returned.results = <<>>
        /\ "error" \in DOMAIN returned.report
        /\ returned.report.success = FALSE

\* C13 amended: the call never raises; an exception of the base retriever,
\* the graph retriever or the graph store is swallowed where it occurs and
\* the call goes on to its ordinary report; only an exception that reaches
\* retrieve_with_fallback itself (deduplication of a strategy's results)
\* gives the empty list and the report with error and success = false
C13_NeverRaises ==
    /\ pc # "raised"
    /\ pc = "done" =>
          /\ IsErrorReport <=> "dedup" \in failures
          /\ IsErrorReport => returned.results = <<>>
          /\ ~IsErrorReport =>
                /\ ReportFields \subseteq DOMAIN returned.report
                /\ returned.report.success <=> returned.results # <<>>
                /\ returned.report.total_results = Len(returned.results)

\* the base retriever raised on one search query, deduplication raised on the
\* results of another, and the call returned the error report
C13_Witness ==
    /\ pc = "done"
    /\ {"base", "dedup"} \subseteq failures
    /\ IsErrorReport
    /\ returned.results = <<>>

Untagged(r) ==
    [ content |-> r.content, score |-> r.score, chunk_id |-> r.chunk_id,
      search_source |-> r.search_source ]

\* the results of an answer whose score reaches the threshold
Passing(answer, threshold) ==
    LET Reaches(r) == r.score >= threshold
        kept == SelectSeq(answer.results, Reaches)
    IN  [k \in 1..Len(kept) |-> Untagged(kept[k])]

Delivered == [k \in 1..Len(strategy_results) |-> Untagged(strategy_results[k])]

\* C14 as stated: when the graph retriever raises, the hybrid results that
\* reach the vector threshold are returned; when the base retriever raises,
\* the graph retriever is still queried and its results that reach the graph
\* threshold are returned
C14_OtherSourceSurvives ==
    pc = "executed" =>
        /\ (graph_retriever /\ graph_answer.raised /\ ~hybrid_answer.raised) =>
              Delivered = Passing(hybrid_answer, strategies[idx + 1].vector_threshold)
        /\ (graph_retriever /\ hybrid_answer.raised) =>
              /\ calls.graph = 1
              /\ ~graph_answer.raised =>
                    Delivered = Passing(graph_answer, strategies[idx + 1].graph_threshold)

\* the stages of a build in the order the specification gives them
BuildStages ==
    <<"chunking", "extraction", "graph_persist", "document_vectors", "graph_vectors",
      "bm25", "spo", "stats_cache">>

StageRank(name) == CHOOSE k \in 1..Len(BuildStages) : BuildStages[k] = name

IsStage(name) == \E k \in 1..Len(BuildStages) : BuildStages[k] = name

Attempted(name) == \E k \in 1..Len(steps) : steps[k].step = name

StatusOf(name) == steps[CHOOSE k \in 1..Len(steps) : steps[k].step = name].status

\* C16: the stages of a build are attempted in the order graph-pass chunking,
\* extraction, graph persist, document vectors, graph vectors, BM25, SPO
\* index, stats caching: a stage is never attempted after a later one, nor twice
C16_BuildOrder ==
    \A i, j \in 1..Len(steps) :
        (i < j /\ IsStage(steps[i].step) /\ IsStage(steps[j].step)) =>
            StageRank(steps[i].step) < StageRank(steps[j].step)

\* a build that went through all eight stages
C16_Witness ==
    /\ mode = "build"
    /\ bpc = "done"
    /\ \A k \in 1..Len(BuildStages) : Attempted(BuildStages[k])

IndexingStages ==
    {"graph_persist", "document_vectors", "graph_vectors", "bm25", "spo", "stats_cache"}

PastStoreAndIndex == mode \in {"full", "build"} /\ bpc \in {"qa", "done"}

\* C17 as stated: when store_and_index is over, every indexing stage has been
\* attempted, whichever stages failed before it; in particular the SPO index
\* when a vector index failed
C17_LaterStepsAttempted ==
    PastStoreAndIndex => \A name \in IndexingStages : Attempted(name)

\* C18 as stated: a run is aborted only by a failure of initialization (or of
\* the check of the data directory that precedes the build steps)
C18_OnlyInitIsFatal ==
    bpc = "aborted" => steps[Len(steps)].step \in {"initialize", "validate_data_path"}

\* C19 as stated: a finished run in mode build or full has called store_graph
\* exactly once, with clear_existing = true; a run in mode qa calls it never
\* and creates no vector handle with recreate_if_exists = true
C19_ExactlyOncePerBuild ==
    /\ (mode \in {"full", "build"} /\ bpc = "done") => store_graph = <<TRUE>>
    /\ mode = "qa" =>
          /\ store_graph = <<>>
          /\ \A k \in 1..Len(handles) : ~handles[k].recreate

\* C19 amended: a run in mode build or full calls store_graph at most once,
\* always with clear_existing = true, and exactly once when the graph-persist
\* block found a graph store and its call succeeded; when the graph store is
\* missing or cannot be obtained, or the run aborted earlier, store_graph is
\* not called.  A run in mode qa never calls it and creates no vector handle
\* with recreate_if_exists = true
C19_AtMostOncePerBuild ==
    /\ Len(store_graph) <= 1
    /\ \A k \in 1..Len(store_graph) : store_graph[k] /\ mode \in {"full", "build"}
    /\ (Attempted("graph_persist") /\ StatusOf("graph_persist") = "ok") =>
          Len(store_graph) = 1
    /\ (Attempted("graph_persist") /\ StatusOf("graph_persist") = "skipped") =>
          store_graph = <<>>
    /\ ~Attempted("graph_persist") => store_graph = <<>>
    /\ mode = "qa" =>
          /\ store_graph = <<>>
          /\ \A k \in 1..Len(handles) : ~handles[k].recreate

\* a finished build whose one call of store_graph had clear_existing = true
C19_Witness ==
    /\ mode = "build"
    /\ bpc = "done"
    /\ StatusOf("graph_persist") = "ok"
    /\ store_graph = <<TRUE>>

\* C20 as stated: every vector store handle has the dimension of the embedding
\* router, and so has every record written
C20_DimensionsAgree ==
    /\ \A k \in 1..Len(handles) : handles[k].dimension = router_dim
    /\ \A rec \in records : rec.dimension = router_dim

-----------------------------------------------------------------------------
(* Properties of deduplication *)

DedupDone == dpc # "input" /\ ~once.raised

\* positions of raw appended to unique_results by the first pass
Kept == DedupRun(raw).kept

\* positions of raw among the results returned: none when the call raised
KeptAtReturn == IF once.raised THEN {} ELSE Kept

\* C7 as stated: deduplicating a deduplicated list returns the same list
C7_IdempotentAlways == (dpc = "twice" /\ ~twice.raised) => twice = once

\* C7 amended: deduplication is idempotent whenever the deduplicated list has
\* at most four results, so that the scan of the last three admitted results
\* covers every admitted result
C7_IdempotentWithinWindow ==
    (dpc = "twice" /\ Len(once.results) <= 4) => twice = once

C7_Witness ==
    /\ dpc = "twice"
    /\ Len(once.results) = 4
    /\ Len(raw) > 4
    /\ twice = once

Jaccard100(c1, c2) == 100 * Cardinality(WordSet(c1) \cap WordSet(c2))
JaccardDen(c1, c2) == Cardinality(WordSet(c1) \cup WordSet(c2))
SameEnds(c1, c2) ==
    /\ PrefixLower(c1, 100) = PrefixLower(c2, 100)
    /\ SuffixLower(c1, 100) = SuffixLower(c2, 100)
LengthsClose(c1, c2) ==
    100 * Abs(StrLen(c1) - StrLen(c2)) <= 30 * Max(StrLen(c1), StrLen(c2))
ShareChunkId(x, y) == x.chunk_id # NoId /\ x.chunk_id = y.chunk_id

\* the policy as the claim words it: overlap of at least 0.8 / 0.95
PolicyAsStated(x, y) ==
    \/ ShareChunkId(x, y)
    \/ /\ LengthsClose(x.content, y.content)
       /\ \/ /\ SameEnds(x.content, y.content)
             /\ Jaccard100(x.content, y.content) >= 80 * JaccardDen(x.content, y.content)
          \/ Jaccard100(x.content, y.content) >= 95 * JaccardDen(x.content, y.content)

\* the policy with strict bounds, for texts that both contain a word
PolicyStrict(x, y) ==
    \/ ShareChunkId(x, y)
    \/ /\ LengthsClose(x.content, y.content)
       /\ WordSet(x.content) # {} /\ WordSet(y.content) # {}
       /\ \/ /\ SameEnds(x.content, y.content)
             /\ Jaccard100(x.content, y.content) > 80 * JaccardDen(x.content, y.content)
          \/ Jaccard100(x.content, y.content) > 95 * JaccardDen(x.content, y.content)

\* C8 as stated: of two results the second is collapsed into the first iff they
\* share a chunk_id, or first and last 100 characters match and the overlap is
\* at least 0.8, or the overlap is at least 0.95 (never when the lengths differ
\* by more than 30%)
C8_PolicyAsStated ==
    (DedupDone /\ Len(raw) = 2) =>
        ((Len(once.results) = 1) <=> PolicyAsStated(raw[1], raw[2]))

\* C8 amended: the second of two results is collapsed into the first iff they
\* share a chunk_id, or the lengths differ by at most 30%, both texts contain a
\* word, and the overlap is above 0.95, or above 0.8 with matching first and
\* last 100 characters (compared in lower case); two texts without any
\* character make the comparison raise and nothing is returned
C8_PolicyStrict ==
    (dpc # "input" /\ Len(raw) = 2) =>
        ((Len(once.results) = 1) <=> PolicyStrict(raw[1], raw[2]))

\* collapsed by the 0.8 rule alone: ends match, overlap in (0.8, 0.95], ids differ
C8_Witness ==
    /\ DedupDone /\ Len(raw) = 2 /\ Len(once.results) = 1
    /\ ~ShareChunkId(raw[1], raw[2])
    /\ Jaccard100(raw[1].content, raw[2].content) <= 95 * JaccardDen(raw[1].content, raw[2].content)

SameTextOtherId(x, y) ==
    /\ x.content = y.content
    /\ x.chunk_id # NoId /\ y.chunk_id # NoId /\ x.chunk_id # y.chunk_id

\* C9 as stated: of two results with the same text and distinct chunk_ids, at
\* any two positions of the raw list (and no third result with that text),
\* exactly one is kept
C9_ExactlyOneAnywhere ==
    DedupDone =>
        \A i \in 1..Len(raw), j \in 1..Len(raw) :
            (/\ i < j
             /\ SameTextOtherId(raw[i], raw[j])
             /\ \A k \in 1..Len(raw) : raw[k].content = raw[i].content => k \in {i, j}) =>
                Cardinality({i, j} \cap Kept) = 1

\* C9 amended: of two results with the same text (containing a word) and
\* distinct chunk_ids, with at most two other results between them in the raw
\* list, deduplication never returns both
C9_NotBothNearby ==
    dpc # "input" =>
        \A i \in 1..Len(raw), j \in 1..Len(raw) :
            (/\ i < j /\ j - i <= 3
             /\ SameTextOtherId(raw[i], raw[j])
             /\ WordSet(raw[i].content) # {}) =>
                ~({i, j} \subseteq KeptAtReturn)

\* the two copies are three positions apart, everything between them is kept
C9_Witness ==
    /\ DedupDone
    /\ Len(raw) >= 4
    /\ SameTextOtherId(raw[1], raw[4])
    /\ {1, 2, 3} \subseteq Kept /\ 4 \notin Kept

-----------------------------------------------------------------------------
(* Properties of the returned list, the handles and the statistics *)

NonIncreasing(results) ==
    \A k \in 1..(Len(results) - 1) : results[k].score >= results[k + 1].score

\* C26: the list retrieve_with_fallback returns, from a ladder strategy or
\* from the direct entity search, is sorted by score in non-increasing order
C26_ReturnedSorted ==
    pc = "done" => NonIncreasing(returned.results)

\* a strategy collected a lower score before a higher one and returned both
C26_Witness ==
    /\ pc = "done"
    /\ StrategyUsed \in StrategyNames
    /\ ~NonIncreasing(strategy_results)
    /\ Len(returned.results) >= 2
    /\ returned.results[1].score > returned.results[2].score

\* C27 as stated: no collection has two handles, in particular not two with
\* different recreate_if_exists
C27_OneHandlePerCollection ==
    \A i, j \in 1..Len(handles) :
        handles[i].collection = handles[j].collection => i = j

\* C28 as stated: _deduplicate_results returns a list and never raises
C28_DedupTotal ==
    dpc # "input" => ~once.raised

RECURSIVE SumUsage(_, _)
SumUsage(usage, names) ==
    IF names = {} THEN 0
    ELSE LET n == CHOOSE x \in names : TRUE
         IN  usage[n] + SumUsage(usage, names \ {n})

-----------------------------------------------------------------------------
(* Properties of the query decomposer *)

Succeeded(i) == ~IsPending(sub_answers[i]) /\ ~sub_answers[i].raised

\* the content keys of the results of the sub-questions whose retrieval succeeded
SucceededKeys ==
    UNION { { content_key(sub_answers[i].results[k]) :
                k \in 1..Len(sub_answers[i].results) } :
            i \in { j \in 1..Len(sub_answers) : Succeeded(j) } }

MergedKeys == { content_key(merged[k]) : k \in 1..Len(merged) }

\* C30: with a decomposed query the call never raises, whatever retrievals
\* raise and in either retrieval mode; the merged list holds one result per
\* content key found by the succeeding sub-questions, all of them when they
\* fit under max_merged_results and max_merged_results of them otherwise
C30_FailingSubQuestionTolerated ==
    /\ should_decompose => qd_pc # "raised"
    /\ (should_decompose /\ qd_pc = "done") =>
          /\ MergedKeys \subseteq SucceededKeys
          /\ Cardinality(MergedKeys) = Len(merged)
          /\ Len(merged) = IF Cardinality(SucceededKeys) < max_merged_results
                           THEN Cardinality(SucceededKeys)
                           ELSE max_merged_results
          /\ NonIncreasing(merged)

\* three sub-questions retrieved in parallel: one raised, the other two
\* succeeded, and the merged list holds all their results
C30_Witness ==
    /\ should_decompose
    /\ qd_pc = "done"
    /\ parallel_retrieval
    /\ Len(sub_answers) = 3
    /\ sub_answers[2].raised
    /\ Succeeded(1) /\ Succeeded(3)
    /\ sub_answers[1].results # <<>> /\ sub_answers[3].results # <<>>
    /\ MergedKeys = SucceededKeys

-----------------------------------------------------------------------------
(* Properties of the context of _generate_answer *)

\* the call went through selection and assembly
ContextBuilt == ga_pc = "done" /\ ga_outcome \in LLMOutcomes

Ids(selected) == { selected[k].id : k \in 1..Len(selected) }

OfType(selected, type) == { k \in 1..Len(selected) : TypeOf(selected[k]) = type }

ResultTypes == {"entity", "document", "graph", "other"}

\* the results the quota pass left, by descending score
Unselected ==
    SelectSeq(SortByScore(ga_results), LAMBDA r : r.id \notin Ids(quota_results))

AtMostTopK == Len(context_results) <= context_top_k

NeverTwice == Cardinality(Ids(context_results)) = Len(context_results)

QuotaPerType ==
    \A type \in ResultTypes :
        Cardinality(OfType(quota_results, type)) <= max_per_type(context_top_k)

FilledByScore ==
    context_results = quota_results \o Take(Unselected, context_top_k - Len(quota_results))

\* C23: the selection has at most top_k results and none twice, the quota pass
\* gives no type more than max_per_type results, and the slots it leaves are
\* filled from the unselected results by descending score
C23_SelectionWithinQuota ==
    ContextBuilt => AtMostTopK /\ NeverTwice /\ QuotaPerType /\ FilledByScore

HasMarker(text) == Len(text) >= 2 /\ SubSeq(text, Len(text) - 1, Len(text)) = Marker

WithoutMarker(text) == IF HasMarker(text) THEN SubSeq(text, 1, Len(text) - 2) ELSE text

\* C22: apart from the marker the context put into the prompt is at most
\* max_context_length characters long, and it carries the marker exactly when
\* the assembled context was longer than max_context_length
C22_ContextWithinLimit ==
    ContextBuilt =>
        /\ TextLen(WithoutMarker(context)) <= max_context_length
        /\ HasMarker(context) <=> TextLen(assembled) > max_context_length

\* C24: the call is never abandoned before the context is built, an empty list
\* of results gives a context too, and so does every other list
C24_AssemblyNeverFails ==
    ga_pc = "done" => ga_outcome \in LLMOutcomes /\ context # <<>>

-----------------------------------------------------------------------------
(* Properties of the session loops *)

QueryFailed(turn) == turn.did = "query_error"

\* the step in which a query fails
QueryFails ==
    /\ spc = "processing"
    /\ Len(transcript') = Len(transcript) + 1
    /\ QueryFailed(transcript'[Len(transcript')])

\* C25: a session ends only by a quit or exit command or by an interrupt, and
\* the step in which a query fails leaves the loop at its prompt
C25_SessionSurvivesErrors ==
    /\ [](spc = "ended" => ended_by \in {"quit", "interrupt"})
    /\ [][QueryFails => spc' = "prompt"]_vars

\* a query failed and the next one was answered
C25_Witness ==
    \E k \in 1..(Len(transcript) - 1) :
        QueryFailed(transcript[k]) /\ transcript[k + 1].did = "answered"

-----------------------------------------------------------------------------
(* Properties of the SPO index *)

\* the relationship ids listed under key in one of the three indexes
IdsUnder(index, key) ==
    IF key \in DOMAIN index
    THEN { index[key][k].relationship_id : k \in 1..Len(index[key]) }
    ELSE {}

SpoPersisted == kv.available /\ "spo_index" \in DOMAIN kv.data

HasEndpoints(rel) ==
    /\ rel.source_entity_id \in knowledge_graph.entities
    /\ rel.target_entity_id \in knowledge_graph.entities

\* rel is found under its subject, its predicate and its object
Indexed(rel) ==
    /\ SpoPersisted
    /\ LET spo == json_loads(kv.data["spo_index"])
       IN  /\ rel.id \in IdsUnder(spo.subject_index, EntityName[rel.source_entity_id])
           /\ rel.id \in IdsUnder(spo.predicate_index, rel.relation_type)
           /\ rel.id \in IdsUnder(spo.object_index, EntityName[rel.target_entity_id])

\* C21 as stated: after a build every relationship of the graph (with its two
\* entities in the graph, so that s and o are defined) is in the persisted
\* spo_index under its subject, predicate and object
C21_EveryRelationshipIndexed ==
    PastStoreAndIndex =>
        \A k \in 1..Len(knowledge_graph.relationships) :
            HasEndpoints(knowledge_graph.relationships[k]) =>
                Indexed(knowledge_graph.relationships[k])

\* C21 amended: once _build_spo_index has found a key-value store and
\* completed, every relationship whose source and target entities are in the
\* graph is in the persisted spo_index under its subject, predicate and
\* object, and a relationship with a missing entity is under none of them;
\* without a key-value store nothing is persisted
C21_IndexedWhenBuilt ==
    /\ (Attempted("spo") /\ StatusOf("spo") = "ok") =>
          \A k \in 1..Len(knowledge_graph.relationships) :
              LET rel == knowledge_graph.relationships[k]
                  spo == json_loads(kv.data["spo_index"])
              IN  IF HasEndpoints(rel) THEN Indexed(rel)
                  ELSE \A name \in DOMAIN spo.subject_index \cup DOMAIN spo.object_index :
                          /\ rel.id \notin IdsUnder(spo.subject_index, name)
                          /\ rel.id \notin IdsUnder(spo.object_index, name)
    /\ ~kv.available => ~SpoPersisted
    /\ SpoPersisted => Attempted("spo") /\ StatusOf("spo") = "ok"

\* a finished build with two indexed relationships that share their predicate
C21_Witness ==
    /\ mode = "build"
    /\ bpc = "done"
    /\ StatusOf("spo") = "ok"
    /\ Len(knowledge_graph.relationships) = 2
    /\ \A k \in 1..2 : Indexed(knowledge_graph.relationships[k])
    /\ knowledge_graph.relationships[1].relation_type =
          knowledge_graph.relationships[2].relation_type

====
